---- MODULE Spec2Model ----
(***************************************************************************)
(* Model of github.com/miku/grobidclient: the concurrent directory         *)
(* processor (ProcessDirRecursive, client.go) with its workers, its error  *)
(* aggregator, the directory walk and the result writers.                  *)
(*                                                                         *)
(* A path is a sequence of tokens; the string it stands for is the         *)
(* concatenation of the tokens.  "/" and "." are tokens of their own, the  *)
(* other tokens contain neither, so that path.Ext, path.Base and           *)
(* strings.HasSuffix can be computed the way the Go library computes them. *)
(***************************************************************************)
EXTENDS Integers, Sequences, FiniteSets, Bags, TLC

(* ----------------------------- bounds ---------------------------------- *)

\* Largest number of goroutine workers a run is started with.
MaxWorkers == 2

\* Largest number of regular files in the directory tree before the first run.
MaxFiles == 2

(* --------------------------- path helpers ------------------------------ *)

SLASH == "/"

DOT == "."

\* Byte order of the tokens, as sort.Strings orders the names of a directory.
TokOrder ==
  <<".", "/", "_-1", "_200", "_500", "a", "d", "grobid", "o", "pdf", "s",
    "tei", "txt", "u", "xml", "z">>

TokRank(t) == CHOOSE i \in 1..Len(TokOrder) : TokOrder[i] = t

RECURSIVE PathLess(_, _)
PathLess(p, q) ==
  IF q = <<>> THEN FALSE
  ELSE IF p = <<>> THEN TRUE
  ELSE IF Head(p) = Head(q) THEN PathLess(Tail(p), Tail(q))
  ELSE TokRank(Head(p)) < TokRank(Head(q))

\* Index of the last "/" of p, 0 if there is none.
LastSlash(p) ==
  IF \E i \in 1..Len(p) : p[i] = SLASH
  THEN CHOOSE i \in 1..Len(p) : p[i] = SLASH /\ \A j \in (i+1)..Len(p) : p[j] # SLASH
  ELSE 0

\* path.Base for a clean, non-empty path.
Base(p) == SubSeq(p, LastSlash(p) + 1, Len(p))

\* path.Dir for a clean path: everything before the last "/", "." if none.
Dir(p) == IF LastSlash(p) = 0 THEN <<DOT>> ELSE SubSeq(p, 1, LastSlash(p) - 1)

\* path.Ext: the suffix beginning at the final dot in the final element.
Ext(p) ==
  LET lo == LastSlash(p) + 1
      dots == {i \in lo..Len(p) : p[i] = DOT}
  IN IF dots = {} THEN <<>>
     ELSE LET i == CHOOSE k \in dots : \A j \in dots : j <= k
          IN SubSeq(p, i, Len(p))

\* strings.TrimSuffix(filepath, path.Ext(filepath))
withoutExt(p) == SubSeq(p, 1, Len(p) - Len(Ext(p)))

\* path.Join of two clean, non-empty paths.
Join(a, b) == a \o <<SLASH>> \o b

HasSuffix(p, s) ==
  Len(p) >= Len(s) /\ SubSeq(p, Len(p) - Len(s) + 1, Len(p)) = s

DefaultExt == <<"grobid", DOT, "tei", DOT, "xml">>

(* --------------------------- services ---------------------------------- *)

ValidServices ==
  {"processFulltextDocument", "processHeaderDocument", "processReferences",
   "processCitationList", "processCitationPatentST36", "processCitationPatentPDF"}

IsValidService(name) == name \in ValidServices

(* --------------------------- errors, results --------------------------- *)

\* An error value is a tuple; the nil error is the empty tuple.
Nil == <<>>

ErrInvalidService == <<"invalid service">>

\* fmt.Errorf("process failed: %w", err)
Wrap(err) == <<"process failed", err>>

\* errors.Join(errList...), called with a non-empty list of non-nil errors.
ErrorsJoin(errList) == <<"join", errList>>

\* The nil *Result.
NilResult ==
  [isNil |-> TRUE, Filename |-> <<>>, StatusCode |-> 0, BodyLen |-> 0, Err |-> Nil]

MkResult(filename, status, bodyLen, err) ==
  [isNil |-> FALSE, Filename |-> filename, StatusCode |-> status,
   BodyLen |-> bodyLen, Err |-> err]

(* --------------------------- file system ------------------------------- *)

\* A file system is a set of entries [p |-> path, k |-> kind].  Kinds: "dir", a
\* readable directory; "nodir", a directory whose names cannot be read; "pdf",
\* a regular file whose content is detected as application/pdf; "bin", a
\* regular file with any other content; "noread", a regular file that cannot
\* be opened.
IsDirKind(k) == k \in {"dir", "nodir"}

Exists(fsys, p) == \E e \in fsys : e.p = p

KindOf(fsys, p) == (CHOOSE e \in fsys : e.p = p).k

\* The ancestors of a clean path, the path included, "." excluded.
RECURSIVE Ancestors(_)
Ancestors(p) ==
  IF p = <<DOT>> \/ p = <<>> THEN {} ELSE {p} \cup Ancestors(Dir(p))

\* os.MkdirAll(dir): the directories of the chain that are missing are created.
MkdirAll(fsys, dir) ==
  fsys \cup {[p |-> a, k |-> "dir"] : a \in {b \in Ancestors(dir) : ~Exists(fsys, b)}}

\* os.WriteFile(dst, body): creates or truncates the regular file dst.
WriteFile(fsys, dst) ==
  {e \in fsys : e.p # dst} \cup {[p |-> dst, k |-> "bin"]}

\* The names of the directory dir, as paths, in the order of sort.Strings.
Children(fsys, dir) == {e.p : e \in {x \in fsys : Len(x.p) > Len(dir) /\ Dir(x.p) = dir}}

RECURSIVE SortPaths(_)
SortPaths(S) ==
  IF S = {} THEN <<>>
  ELSE LET m == CHOOSE x \in S : \A y \in S \ {x} : PathLess(x, y)
       IN <<m>> \o SortPaths(S \ {m})

(* ------------------- file types and output names ----------------------- *)

\* isPDF: the detected content type; when mimetype.DetectFile fails (the file
\* cannot be opened), the suffix decides.
isPDF(filename, kind) ==
  IF kind = "noread" THEN HasSuffix(filename, <<DOT, "pdf">>) ELSE kind = "pdf"

isXML(filename) == HasSuffix(filename, <<DOT, "xml">>)

isText(filename) == HasSuffix(filename, <<DOT, "txt">>)

outputFilename(filepath, opts) ==
  IF opts.OutputDir = <<>>
  THEN withoutExt(filepath) \o <<DOT>> \o DefaultExt
  ELSE Join(opts.OutputDir, withoutExt(Base(filepath)) \o <<DOT>> \o DefaultExt)

isAlreadyProcessed(fsys, path, opts) == Exists(fsys, outputFilename(path, opts))

(* --------------------------- result writers ---------------------------- *)

\* fmt.Sprintf("_%d.txt", result.StatusCode)
ErrSuffix(status) ==
  <<CASE status = -1 -> "_-1" [] status = 0 -> "_0" [] status = 200 -> "_200"
       [] OTHER -> "_500",
    DOT, "txt">>

\* strings.Replace(s, old, new, 1): the first occurrence of old is replaced.
ReplaceFirst(s, old, new) ==
  LET hits == {i \in 1..(Len(s) - Len(old) + 1) : SubSeq(s, i, i + Len(old) - 1) = old}
  IN IF hits = {} THEN s
     ELSE LET i == CHOOSE k \in hits : \A j \in hits : k <= j
          IN SubSeq(s, 1, i - 1) \o new \o SubSeq(s, i + Len(old), Len(s))

\* How the file system answers while a result is written: "ok", or "write"
\* when os.WriteFile fails.
IoOutcomes == {"ok", "write"}

\* DebugResultWriter only logs, and returns the error of the result.
DebugResultWriter(result, opts, fsys, io) ==
  [err |-> result.Err, fs |-> fsys, wrote |-> <<>>]

\* DefaultResultWriter writes the TEI file, or an error file named after the
\* status code.  opts.CreateHashSymlinks is false (DefaultOptions).  The field
\* wrote holds the name handed to os.WriteFile, when the write succeeded.
DefaultResultWriter(result, opts, fsys, io) ==
  IF result.isNil \/ result = MkResult(<<>>, 0, 0, Nil)
  THEN [err |-> Nil, fs |-> fsys, wrote |-> <<>>]
  ELSE LET dst  == outputFilename(result.Filename, opts)
           fs1  == MkdirAll(fsys, Dir(dst))
           edst == ReplaceFirst(dst, <<DOT>> \o DefaultExt, ErrSuffix(result.StatusCode))
           out  == IF result.StatusCode # 200 \/ result.BodyLen = 0 THEN edst ELSE dst
       IN IF io = "write" THEN [err |-> <<"io", out>>, fs |-> fs1, wrote |-> <<>>]
          ELSE [err |-> Nil, fs |-> WriteFile(fs1, out), wrote |-> <<out>>]

ResultFuncs == {"DebugResultWriter", "DefaultResultWriter"}

\* rf(result, opts)
CallResultFunc(rf, result, opts, fsys, io) ==
  IF rf = "DebugResultWriter"
  THEN DebugResultWriter(result, opts, fsys, io)
  ELSE DefaultResultWriter(result, opts, fsys, io)

(* --------------------------- submission -------------------------------- *)

\* What g.Client.Do and the read of the body give: a transport error, or a
\* response with a status code and a body (its length: 0 or more).
HttpOutcomes ==
  {[ok |-> FALSE, status |-> 0, bodyLen |-> 0],
   [ok |-> TRUE, status |-> 200, bodyLen |-> 1],
   [ok |-> TRUE, status |-> 200, bodyLen |-> 0],
   [ok |-> TRUE, status |-> 500, bodyLen |-> 1]}

\* The field io lists the accesses to the file system and to the network that
\* the call made, in order.
ProcessPDFContext(filename, service, fsys, http) ==
  IF ~Exists(fsys, filename)
  THEN [result |-> NilResult, err |-> <<"stat", filename>>, io |-> <<"stat">>]
  ELSE IF ~IsValidService(service)
  THEN [result |-> NilResult, err |-> ErrInvalidService, io |-> <<"stat">>]
  ELSE IF ~http.ok
  THEN [result |-> NilResult, err |-> <<"http", filename>>,
        io |-> <<"stat", "open", "http">>]
  ELSE [result |-> MkResult(filename, http.status, http.bodyLen, Nil), err |-> Nil,
        io |-> <<"stat", "open", "http">>]

ProcessPDF(filename, service, fsys, http) ==
  ProcessPDFContext(filename, service, fsys, http)

ProcessText(filename, service, fsys, http) ==
  IF ~IsValidService(service)
  THEN [result |-> NilResult, err |-> ErrInvalidService, io |-> <<>>]
  ELSE IF ~Exists(fsys, filename)
  THEN [result |-> NilResult, err |-> <<"open", filename>>, io |-> <<"open">>]
  ELSE IF ~http.ok
  THEN [result |-> NilResult, err |-> <<"http", filename>>, io |-> <<"open", "http">>]
  ELSE [result |-> MkResult(filename, http.status, http.bodyLen, Nil), err |-> Nil,
        io |-> <<"open", "http">>]

\* The switch of the worker: the text service for processCitationList, the
\* PDF service for everything else.
Submit(path, service, fsys, http) ==
  IF service = "processCitationList"
  THEN ProcessText(path, service, fsys, http)
  ELSE ProcessPDF(path, service, fsys, http)

\* Variant: the pseudo-result carries the error as it came, and no status.
SyntheticResult_Bare(path, err) == MkResult(path, 0, 0, err)

\* The pseudo-result of a worker for a submission that returned no result.
SyntheticResult(path, err) == MkResult(path, -1, 0, Wrap(err))

\* The result a worker hands to the result function.
WorkerResult(path, sub) ==
  IF sub.result.isNil THEN SyntheticResult(path, sub.err) ELSE sub.result

(* --------------------------- the walk ---------------------------------- *)

\* Variant: every regular file is sent.
Eligible_AnyFile(service, path, kind) == TRUE

\* The switch of the walk function: is the file sent to the workers?
Eligible(service, path, kind) ==
  \/ service = "processFulltextDocument" /\ isPDF(path, kind)
  \/ service = "processCitationList" /\ isText(path)
  \/ service = "processCitationPatentST36" /\ isXML(path)

(* --------------------------- state ------------------------------------- *)

VARIABLES
  dir,          \* argument: the root of the walk
  service,      \* argument: the service name
  numWorkers,   \* argument: the number of workers
  rf,           \* argument: the result function
  opts,         \* argument: the options (Force, OutputDir)
  fs,           \* the file system
  mpc,          \* where the calling goroutine is in ProcessDirRecursive
  todo,         \* filepath.Walk: the paths still to visit, in order
  pending,      \* the path the walk function is sending on pathC
  numProcessed, \* local numProcessed
  err,          \* local err: what filepath.Walk returned
  ret,          \* the value ProcessDirRecursive returned
  pathCClosed,  \* close(pathC) has happened
  errCClosed,   \* close(errC) has happened
  wpc,          \* where each worker is
  wpath,        \* each worker's path
  wresult,      \* each worker's result
  werr,         \* each worker's err, from the submission
  wret,         \* what rf returned to each worker
  apc,          \* where the aggregating goroutine is
  errList,      \* local errList
  run,          \* history: 1 in the first call, 2 in the call repeated after it
  fs0,          \* history: the file system when the current call started
  handled,      \* history: bag of the paths rf was called for, this call
  submitted,    \* history: bag of the paths submitted, this call
  failedSubs,   \* history: number of submissions that returned an error, this call
  herrs,        \* history: bag of the non-nil errors rf returned, this call
  skipped,      \* history: number of received paths skipped as already processed
  done,         \* history: number of received paths a worker is through with
  firstOK,      \* history: the first call succeeded for every file it dispatched
  cin,          \* a direct call of a function of the library: name and arguments
  cout,         \* what the direct call returned; NoCall before it returns
  ppc,          \* where the caller is in a direct call of ProcessPDFContext
  gpc,          \* where the copy goroutine of ProcessPDFContext is
  gerr,         \* the value the copy goroutine sends on its errC
  sent,         \* history: number of values sent on the errC of the call
  prClosed,     \* the read end of the pipe was closed
  resp          \* the response g.Client.Do returned; NoResp before

args == <<dir, service, numWorkers, rf, opts>>

mainVars == <<mpc, todo, pending, numProcessed, err, ret, pathCClosed, errCClosed>>

workerVars == <<wpc, wpath, wresult, werr, wret>>

aggVars == <<apc, errList>>

histVars == <<run, fs0, handled, submitted, failedSubs, herrs, skipped, done, firstOK>>

pdfVars == <<ppc, gpc, gerr, sent, prClosed, resp>>

callVars == <<cin, cout, pdfVars>>

vars == <<args, fs, mainVars, workerVars, aggVars, histVars, callVars>>

Workers == 1..numWorkers

(* --------------------------- initial states ---------------------------- *)

Root == <<"d">>

InDir(d, stem, ext) == d \o <<SLASH, stem, DOT>> \o ext

SubDir == Root \o <<SLASH, "s">>

\* The regular files the tree is made of before the first call; a.txt holds a
\* PDF, the other files named after a text or XML type hold something else.
CandidateFiles ==
  {[p |-> InDir(Root, "a", <<"pdf">>),     k |-> "pdf"],
   [p |-> InDir(SubDir, "a", <<"pdf">>),   k |-> "pdf"],
   [p |-> InDir(Root, "a", <<"txt">>),     k |-> "pdf"],
   [p |-> InDir(Root, "a", <<"xml">>),     k |-> "bin"],
   [p |-> InDir(Root, "a", DefaultExt),    k |-> "bin"]}

\* A directory whose names cannot be read; it sorts after the files above.
BadDir == [p |-> Root \o <<SLASH, "u">>, k |-> "nodir"]

Tree(files, bad) ==
  files
    \cup {[p |-> a, k |-> "dir"] : a \in UNION {Ancestors(Dir(f.p)) : f \in files}}
    \cup {[p |-> Root, k |-> "dir"]}
    \cup (IF bad THEN {BadDir} ELSE {})

Services == ValidServices \cup {"processAnything"}

OutputDirs == {<<>>, <<"o">>}

\* No function of the library is called directly.
NoCall == [fn |-> "none"]

\* No response yet.
NoResp == [ok |-> FALSE, status |-> 0, bodyLen |-> 0]

\* ProcessPDFContext is not running as a direct call.
NoPDF ==
  /\ ppc = "idle"
  /\ gpc = "none"
  /\ gerr = Nil
  /\ sent = 0
  /\ prClosed = FALSE
  /\ resp = NoResp

NoDirectCall == cin = NoCall /\ cout = NoCall /\ NoPDF

Fresh ==
  /\ mpc = "start"
  /\ todo = <<>>
  /\ pending = <<>>
  /\ numProcessed = 0
  /\ err = Nil
  /\ ret = Nil
  /\ pathCClosed = FALSE
  /\ errCClosed = FALSE
  /\ wpc = [w \in Workers |-> "recv"]
  /\ wpath = [w \in Workers |-> <<>>]
  /\ wresult = [w \in Workers |-> NilResult]
  /\ werr = [w \in Workers |-> Nil]
  /\ wret = [w \in Workers |-> Nil]
  /\ apc = "recv"
  /\ errList = <<>>
  /\ handled = EmptyBag
  /\ submitted = EmptyBag
  /\ failedSubs = 0
  /\ herrs = EmptyBag
  /\ skipped = 0
  /\ done = 0

Init ==
  /\ dir = Root
  /\ service \in Services
  /\ numWorkers \in 1..MaxWorkers
  /\ rf \in ResultFuncs
  /\ opts \in [Force : BOOLEAN, OutputDir : OutputDirs]
  /\ \E files \in SUBSET CandidateFiles, bad \in BOOLEAN, rootExists \in BOOLEAN :
       /\ Cardinality(files) <= MaxFiles
       /\ ~rootExists => files = {} /\ ~bad
       /\ fs = IF rootExists THEN Tree(files, bad) ELSE {}
  /\ fs0 = fs
  /\ run = 1
  /\ firstOK = TRUE
  /\ Fresh
  /\ NoDirectCall

(* --------------------------- the caller -------------------------------- *)

\* Variant: the collected errors are returned before the error of the walk.
ReturnValue_ListFirst(walkErr, list) ==
  IF Len(list) > 0 THEN ErrorsJoin(list)
  ELSE walkErr

\* What ProcessDirRecursive returns, from the error of the walk and errList.
ReturnValue(walkErr, list) ==
  IF walkErr # Nil THEN walkErr
  ELSE IF Len(list) > 0 THEN ErrorsJoin(list)
  ELSE Nil

\* The workers and the aggregator are started, filepath.Walk looks up the root.
Start ==
  /\ mpc = "start"
  /\ IF Exists(fs, dir)
     THEN /\ todo' = <<dir>>
          /\ mpc' = "walk"
          /\ UNCHANGED <<err, ret>>
     ELSE /\ err' = <<"lstat", dir>>
          /\ ret' = ReturnValue(err', errList)
          /\ mpc' = "returned"
          /\ todo' = todo
  /\ UNCHANGED <<callVars, args, fs, pending, numProcessed, pathCClosed, errCClosed,
                 workerVars, aggVars, histVars>>

\* filepath.Walk visits a directory: its names are read and the walk function
\* is called with the outcome.
WalkDir ==
  /\ mpc = "walk" /\ todo # <<>>
  /\ IsDirKind(KindOf(fs, Head(todo)))
  /\ IF KindOf(fs, Head(todo)) = "nodir"
     THEN /\ err' = <<"readdir", Head(todo)>>
          /\ ret' = ReturnValue(err', errList)
          /\ mpc' = "returned"
          /\ todo' = todo
     ELSE /\ todo' = SortPaths(Children(fs, Head(todo))) \o Tail(todo)
          /\ UNCHANGED <<err, ret, mpc>>
  /\ UNCHANGED <<callVars, args, fs, pending, numProcessed, pathCClosed, errCClosed,
                 workerVars, aggVars, histVars>>

\* filepath.Walk visits a regular file: the walk function sends it or skips it.
WalkFile ==
  /\ mpc = "walk" /\ todo # <<>>
  /\ ~IsDirKind(KindOf(fs, Head(todo)))
  /\ IF Eligible(service, Head(todo), KindOf(fs, Head(todo)))
     THEN pending' = Head(todo) /\ mpc' = "send"
     ELSE UNCHANGED <<pending, mpc>>
  /\ todo' = Tail(todo)
  /\ UNCHANGED <<callVars, args, fs, numProcessed, err, ret, pathCClosed, errCClosed,
                 workerVars, aggVars, histVars>>

\* Variant: pathC takes a path whether or not the worker is receiving.
PathCReady_Always(w) == TRUE

\* pathC is unbuffered: a send completes when a worker is receiving.
PathCReady(w) == wpc[w] = "recv"

\* pathC <- path meets the receive of worker w; the walk function returns.
Send(w) ==
  /\ mpc = "send" /\ PathCReady(w) /\ ~pathCClosed
  /\ wpath' = [wpath EXCEPT ![w] = pending]
  /\ wpc' = [wpc EXCEPT ![w] = "stat"]
  /\ pending' = <<>>
  /\ numProcessed' = numProcessed + 1
  /\ mpc' = "walk"
  /\ UNCHANGED <<callVars, args, fs, todo, err, ret, pathCClosed, errCClosed,
                 wresult, werr, wret, aggVars, histVars>>

\* Variant: the walk returned nil, pathC is left open.
ClosePathC_NoClose ==
  /\ mpc = "walk" /\ todo = <<>>
  /\ mpc' = "wait"
  /\ UNCHANGED <<callVars, args, fs, todo, pending, numProcessed, err, ret, pathCClosed,
                 errCClosed, workerVars, aggVars, histVars>>

\* The walk returned nil: close(pathC).
ClosePathC ==
  /\ mpc = "walk" /\ todo = <<>>
  /\ pathCClosed' = TRUE
  /\ mpc' = "wait"
  /\ UNCHANGED <<callVars, args, fs, todo, pending, numProcessed, err, ret, errCClosed,
                 workerVars, aggVars, histVars>>

\* Variant: close(errC) without wg.Wait().
CloseErrC_NoWait ==
  /\ mpc = "wait"
  /\ errCClosed' = TRUE
  /\ mpc' = "waitDone"
  /\ UNCHANGED <<callVars, args, fs, todo, pending, numProcessed, err, ret, pathCClosed,
                 workerVars, aggVars, histVars>>

\* wg.Wait() returns when every worker is done: close(errC).
CloseErrC ==
  /\ mpc = "wait"
  /\ \A w \in Workers : wpc[w] = "exited"
  /\ errCClosed' = TRUE
  /\ mpc' = "waitDone"
  /\ UNCHANGED <<callVars, args, fs, todo, pending, numProcessed, err, ret, pathCClosed,
                 workerVars, aggVars, histVars>>

\* <-done meets the send of the aggregator; the result is returned.
Return ==
  /\ mpc = "waitDone" /\ apc = "sendDone"
  /\ apc' = "exited"
  /\ ret' = ReturnValue(err, errList)
  /\ mpc' = "returned"
  /\ UNCHANGED <<callVars, args, fs, todo, pending, numProcessed, err, pathCClosed,
                 errCClosed, workerVars, errList, histVars>>

(* --------------------------- the workers ------------------------------- *)

\* The skip rule of a worker.
SkipRule(fsys, path, o) == isAlreadyProcessed(fsys, path, o) /\ ~o.Force

Idle(w) ==
  /\ wpath' = [wpath EXCEPT ![w] = <<>>]
  /\ wresult' = [wresult EXCEPT ![w] = NilResult]
  /\ werr' = [werr EXCEPT ![w] = Nil]
  /\ wret' = [wret EXCEPT ![w] = Nil]

\* The received path is checked: already processed paths are not submitted.
CheckProcessed(w) ==
  /\ wpc[w] = "stat"
  /\ IF SkipRule(fs, wpath[w], opts)
     THEN /\ wpc' = [wpc EXCEPT ![w] = "recv"]
          /\ Idle(w)
          /\ firstOK' = (firstOK /\ run # 1)
          /\ skipped' = skipped + 1
          /\ done' = done + 1
     ELSE /\ wpc' = [wpc EXCEPT ![w] = "submit"]
          /\ UNCHANGED <<wpath, wresult, werr, wret, firstOK, skipped, done>>
  /\ UNCHANGED <<callVars, args, fs, mainVars, aggVars, run, fs0, handled, submitted,
                 failedSubs, herrs>>

\* The submission returns; a missing result is replaced by the pseudo-result.
SubmitReturn(w) ==
  /\ wpc[w] = "submit"
  /\ \E http \in HttpOutcomes :
       LET sub == Submit(wpath[w], service, fs, http)
       IN /\ wresult' = [wresult EXCEPT ![w] = WorkerResult(wpath[w], sub)]
          /\ werr' = [werr EXCEPT ![w] = sub.err]
          /\ failedSubs' = failedSubs + (IF sub.err # Nil THEN 1 ELSE 0)
          /\ firstOK' = (firstOK /\ (run = 1 =>
                           /\ ~sub.result.isNil
                           /\ sub.result.StatusCode = 200
                           /\ sub.result.BodyLen > 0))
  /\ wpc' = [wpc EXCEPT ![w] = "handle"]
  /\ submitted' = submitted (+) SetToBag({wpath[w]})
  /\ UNCHANGED <<callVars, args, fs, mainVars, wpath, wret, aggVars, run, fs0, handled, herrs,
                 skipped, done>>

\* rf(result, opts) runs and returns.
Handle(w) ==
  /\ wpc[w] = "handle"
  /\ \E io \in IoOutcomes :
       LET out == CallResultFunc(rf, wresult[w], opts, fs, io)
       IN /\ fs' = out.fs
          /\ wret' = [wret EXCEPT ![w] = out.err]
          /\ herrs' = IF out.err = Nil THEN herrs ELSE herrs (+) SetToBag({out.err})
          /\ firstOK' = (firstOK /\ (run = 1 =>
                           rf = "DefaultResultWriter" /\ out.err = Nil))
  /\ wpc' = [wpc EXCEPT ![w] = "sendErr"]
  /\ handled' = handled (+) SetToBag({wpath[w]})
  /\ UNCHANGED <<callVars, args, mainVars, wpath, wresult, werr, aggVars, run, fs0,
                 submitted, failedSubs, skipped, done>>

\* Variant: only the first error is kept.
Aggregate_KeepFirst(list, e) == IF e = Nil \/ Len(list) > 0 THEN list ELSE <<e>>

\* The error list after the aggregator received e.
Aggregate(list, e) == IF e = Nil THEN list ELSE Append(list, e)

\* errC <- rf(...) meets the receive of the aggregator.
SendErr(w) ==
  /\ wpc[w] = "sendErr" /\ apc = "recv" /\ ~errCClosed
  /\ errList' = Aggregate(errList, wret[w])
  /\ wpc' = [wpc EXCEPT ![w] = "recv"]
  /\ Idle(w)
  /\ done' = done + 1
  /\ UNCHANGED <<callVars, args, fs, mainVars, apc, run, fs0, handled, submitted, failedSubs,
                 herrs, skipped, firstOK>>

\* range pathC ends on the closed channel: wg.Done().
WorkerExit(w) ==
  /\ wpc[w] = "recv" /\ pathCClosed
  /\ wpc' = [wpc EXCEPT ![w] = "exited"]
  /\ UNCHANGED <<callVars, args, fs, mainVars, wpath, wresult, werr, wret, aggVars, histVars>>

(* --------------------------- the aggregator ---------------------------- *)

\* range errC ends on the closed channel; the aggregator offers done.
AggDone ==
  /\ apc = "recv" /\ errCClosed
  /\ apc' = "sendDone"
  /\ UNCHANGED <<callVars, args, fs, mainVars, workerVars, errList, histVars>>

(* --------------------------- the second call --------------------------- *)

\* The caller calls ProcessDirRecursive again, with the same arguments, after a
\* call that returned nil and succeeded for every file it dispatched.
RunAgain ==
  /\ mpc = "returned" /\ run = 1 /\ ret = Nil /\ firstOK
  /\ run' = 2
  /\ fs0' = fs
  /\ mpc' = "start"
  /\ todo' = <<>>
  /\ pending' = <<>>
  /\ numProcessed' = 0
  /\ err' = Nil
  /\ ret' = Nil
  /\ pathCClosed' = FALSE
  /\ errCClosed' = FALSE
  /\ wpc' = [w \in Workers |-> "recv"]
  /\ apc' = "recv"
  /\ errList' = <<>>
  /\ handled' = EmptyBag
  /\ submitted' = EmptyBag
  /\ failedSubs' = 0
  /\ herrs' = EmptyBag
  /\ skipped' = 0
  /\ done' = 0
  /\ UNCHANGED <<callVars, args, fs, wpath, wresult, werr, wret, firstOK>>

Next ==
  \/ Start
  \/ WalkDir
  \/ WalkFile
  \/ ClosePathC
  \/ CloseErrC
  \/ Return
  \/ AggDone
  \/ RunAgain
  \/ \E w \in Workers : Send(w)
  \/ \E w \in Workers : CheckProcessed(w)
  \/ \E w \in Workers : SubmitReturn(w)
  \/ \E w \in Workers : Handle(w)
  \/ \E w \in Workers : SendErr(w)
  \/ \E w \in Workers : WorkerExit(w)

Spec == Init /\ [][Next]_vars

\* The position of every goroutine; each step of the call changes it.
pcvars == <<mpc, todo, wpc, apc>>

\* The call of the result function by worker w returns, whatever it did.
HandlerReturns(w) ==
  /\ wpc[w] = "handle"
  /\ wpc' = [wpc EXCEPT ![w] = "sendErr"]
  /\ UNCHANGED <<mpc, todo, apc>>

\* A step of one of the goroutines of ProcessDirRecursive; not the caller's
\* decision to call again.
ProgramStep ==
  \/ Start \/ WalkDir \/ WalkFile \/ ClosePathC \/ CloseErrC \/ Return \/ AggDone
  \/ \E w \in Workers :
       \/ Send(w) \/ CheckProcessed(w) \/ SubmitReturn(w)
       \/ HandlerReturns(w) \/ SendErr(w) \/ WorkerExit(w)

\* While a goroutine can take a step, some goroutine eventually takes one: the
\* scheduler runs runnable goroutines, and the submission and the result
\* function return.
Fairness == WF_pcvars(ProgramStep)

FairSpec == Init /\ [][Next]_vars /\ Fairness

(* --------------------------- vocabulary of the claims ------------------ *)

\* p lies in the tree below the root of the walk.
UnderRoot(p) == Len(p) > Len(dir) /\ SubSeq(p, 1, Len(dir) + 1) = dir \o <<SLASH>>

\* The regular files below the root that the selected service takes.
EligibleFiles(fsys) ==
  {e.p : e \in {x \in fsys : /\ ~IsDirKind(x.k)
                             /\ UnderRoot(x.p)
                             /\ Eligible(service, x.p, x.k)}}

Returned == mpc = "returned"

WalkSucceeded == Returned /\ err = Nil

WalkFailed == Returned /\ err # Nil

\* No eligible file had an output artifact when the call started.
NoneProcessedBefore == \A f \in EligibleFiles(fs0) : ~isAlreadyProcessed(fs0, f, opts)

\* The eligible files have pairwise different output names.
DistinctOutputs ==
  \A f, g \in EligibleFiles(fs0) :
    f # g => outputFilename(f, opts) # outputFilename(g, opts)

(* --------------------------- C1 ---------------------------------------- *)

\* C1: when a call whose walk succeeded returns, and no eligible file had an
\* output artifact at the start (or Force is set), the result function has been
\* called exactly once for each eligible file, and as many times as there are
\* eligible files.
C1_ExactlyOncePerFile ==
  (WalkSucceeded /\ (opts.Force \/ NoneProcessedBefore)) =>
    /\ \A f \in EligibleFiles(fs0) : CopiesIn(f, handled) = 1
    /\ BagCardinality(handled) = Cardinality(EligibleFiles(fs0))

\* The same, for files whose output names differ.
C1_ExactlyOnceDistinct ==
  (WalkSucceeded /\ DistinctOutputs /\ (opts.Force \/ NoneProcessedBefore)) =>
    /\ \A f \in EligibleFiles(fs0) : CopiesIn(f, handled) = 1
    /\ BagCardinality(handled) = Cardinality(EligibleFiles(fs0))

(* --------------------------- C2 ---------------------------------------- *)

\* C2: under fair scheduling, with submissions and result functions that
\* return, every call of ProcessDirRecursive returns.
C2_AlwaysReturns == (mpc = "start") ~> Returned

\* A call with one worker and two files, whose result function returned an
\* error for both, has returned.
C2_Witness ==
  /\ Returned /\ numWorkers = 1
  /\ BagCardinality(handled) = 2 /\ BagCardinality(herrs) = 2

(* --------------------------- C3 ---------------------------------------- *)

\* C3: when ProcessDirRecursive has returned, every worker has exited and no
\* received path is still being checked, submitted or handled.
C3_DrainedOnReturn == Returned => \A w \in Workers : wpc[w] = "exited"

\* The same for the calls whose walk succeeded.
C3_DrainedOnSuccess == WalkSucceeded => \A w \in Workers : wpc[w] = "exited"

(* --------------------------- C4 ---------------------------------------- *)

\* Every eligible file was submitted and every submission returned an error.
AllSubmissionsFailed ==
  /\ failedSubs = Cardinality(EligibleFiles(fs0))
  /\ BagCardinality(submitted) = failedSubs

\* C4: when the submission failed for every one of the N eligible files, the
\* result function was called N times and the returned error joins N errors.
C4_AllFailuresReported ==
  (WalkSucceeded /\ AllSubmissionsFailed) =>
    /\ BagCardinality(handled) = failedSubs
    /\ Len(errList) = failedSubs
    /\ failedSubs > 0 => ret = ErrorsJoin(errList)

\* The same for DebugResultWriter alone.
C4_AllFailuresReportedDebug ==
  rf = "DebugResultWriter" => C4_AllFailuresReported

(* --------------------------- C5 ---------------------------------------- *)

\* C5: a call with a service name outside ValidServices returns
\* ErrInvalidService before the walk starts.
C5_InvalidServiceFailsFast ==
  (~IsValidService(service) /\ mpc # "start") =>
    (Returned /\ ret = ErrInvalidService /\ todo = <<>> /\ numProcessed = 0)

(* --------------------------- C6 ---------------------------------------- *)

\* C6: a second call without Force, after a first call that succeeded for
\* every eligible file, submits nothing and calls the result function for
\* nothing.
C6_SecondRunDoesNothing ==
  (run = 2 /\ ~opts.Force) =>
    (BagCardinality(submitted) = 0 /\ BagCardinality(handled) = 0)

\* The same for the services that take PDF and text files.
C6_SecondRunDoesNothingPdfText ==
  service # "processCitationPatentST36" => C6_SecondRunDoesNothing

(* --------------------------- C7 ---------------------------------------- *)

RECURSIVE SeqToBag(_)
SeqToBag(q) == IF q = <<>> THEN EmptyBag ELSE SetToBag({Head(q)}) (+) SeqToBag(Tail(q))

\* C7: when the walk succeeded, the call returns an error exactly if a result
\* function call returned one; the returned error joins each such error once;
\* every received path was skipped or handled, whatever errors came before;
\* without eligible files nil is returned.
C7_ErrorsAggregated ==
  WalkSucceeded =>
    /\ (ret # Nil) <=> (herrs # EmptyBag)
    /\ ret # Nil => ret = ErrorsJoin(errList)
    /\ SeqToBag(errList) = herrs
    /\ numProcessed = skipped + BagCardinality(handled)
    /\ EligibleFiles(fs0) = {} => ret = Nil

\* A call has returned the errors of two files.
C7_Witness == WalkSucceeded /\ Len(errList) = 2 /\ ret = ErrorsJoin(errList)

(* --------------------------- C8 ---------------------------------------- *)

\* C8: when the walk failed, the call returns the error of the walk.
C8_WalkErrorReturned ==
  WalkFailed => (ret = err /\ ret[1] \in {"lstat", "readdir"})

\* The walk failed after a path was sent and an error collected.
C8_Witness == WalkFailed /\ numProcessed > 0 /\ Len(errList) > 0

(* --------------------------- C9 ---------------------------------------- *)

SubmissionErrors == {"http", "stat", "open"}

\* C9: after a submission that returned an error the worker holds the
\* pseudo-result (the path, status -1, the wrapped error) and goes on to hand
\* it to the result function; the call never returns a submission error itself.
C9_SyntheticResult ==
  /\ \A w \in Workers :
       (wpc[w] \in {"handle", "sendErr"} /\ werr[w] # Nil) =>
         /\ wresult[w] = MkResult(wpath[w], -1, 0, <<"process failed", werr[w]>>)
         /\ werr[w][1] \in SubmissionErrors
         /\ (wpc[w] = "sendErr" /\ rf = "DebugResultWriter") => wret[w] = wresult[w].Err
  /\ \A w \in Workers : wpc[w] \in {"handle", "sendErr"} => ~wresult[w].isNil
  /\ Returned /\ ret # Nil => ret[1] \notin SubmissionErrors

\* A worker has handed the pseudo-result of a failed submission to rf.
C9_Witness == \E w \in Workers : wpc[w] = "sendErr" /\ werr[w] # Nil

(* --------------------------- C10 --------------------------------------- *)

Busy(w) == wpc[w] \in {"stat", "submit", "handle", "sendErr"}

\* C10: the paths sent and not yet through are at most numWorkers, one for
\* each busy worker; the walk holds at most the one path it is sending.
C10_BoundedInFlight ==
  /\ numProcessed - done <= numWorkers
  /\ numProcessed - done = Cardinality({w \in Workers : Busy(w)})
  /\ \A w \in Workers : Busy(w) <=> wpath[w] # <<>>
  /\ (pending # <<>>) <=> (mpc = "send")
  /\ BagCardinality(submitted) <= numProcessed

\* Every worker is busy and the walk is blocked sending a further path.
C10_Witness ==
  /\ numWorkers = 2 /\ mpc = "send"
  /\ \A w \in Workers : wpc[w] \in {"submit", "handle"}

(* --------------------------- C11 --------------------------------------- *)

\* The paths the workers have received so far in this call and not skipped.
Dispatched ==
  BagToSet(submitted) \cup {wpath[w] : w \in {v \in Workers : wpath[v] # <<>>}}

\* C11: any two different files dispatched in one call have different
\* destinations, so no two calls of the result function write the same file.
C11_DistinctDestinations ==
  \A f, g \in Dispatched :
    f # g => outputFilename(f, opts) # outputFilename(g, opts)

\* Two workers are in DefaultResultWriter at once, for different files with the
\* same destination.
C11_TwoWriters ==
  \E v, w \in Workers :
    /\ v # w /\ wpc[v] = "handle" /\ wpc[w] = "handle"
    /\ wpath[v] # wpath[w]
    /\ outputFilename(wpath[v], opts) = outputFilename(wpath[w], opts)
    /\ rf = "DefaultResultWriter"

(* --------------------------- C12 --------------------------------------- *)

\* The input type each dispatching service expects.
ExpectedType ==
  [s \in {"processFulltextDocument", "processCitationList",
          "processCitationPatentST36"} |->
     CASE s = "processFulltextDocument" -> "pdf"
       [] s = "processCitationList" -> "text"
       [] OTHER -> "xml"]

\* The types detected for a file.
DetectedTypes(path, kind) ==
  (IF isPDF(path, kind) THEN {"pdf"} ELSE {})
    \cup (IF isText(path) THEN {"text"} ELSE {})
    \cup (IF isXML(path) THEN {"xml"} ELSE {})

\* The file at path is of the type the selected service expects.
TypeMatches(fsys, path) ==
  /\ Exists(fsys, path)
  /\ ~IsDirKind(KindOf(fsys, path))
  /\ service \in DOMAIN ExpectedType
  /\ ExpectedType[service] \in DetectedTypes(path, KindOf(fsys, path))

\* The walk is at a directory it can read, or at a file of another type.
AtSkipped ==
  /\ mpc = "walk" /\ todo # <<>>
  /\ KindOf(fs, Head(todo)) # "nodir"
  /\ ~TypeMatches(fs, Head(todo))

\* C12: a path is sent to the workers only if it is a regular file of the type
\* the service expects; the walk passes directories and other files without
\* sending them, without an error, and goes on.
C12_EligibilityFilter ==
  /\ [](\A p \in Dispatched \cup (IF pending = <<>> THEN {} ELSE {pending}) :
          TypeMatches(fs0, p))
  /\ [][(AtSkipped /\ todo' # todo) =>
          /\ mpc' = "walk" /\ err' = Nil /\ pending' = <<>>
          /\ numProcessed' = numProcessed]_vars

\* The walk has passed a file of another type and a directory, and sent one file.
C12_Witness ==
  /\ WalkSucceeded /\ numProcessed = 1
  /\ Cardinality({e \in fs0 : ~IsDirKind(e.k)}) = 2
  /\ Exists(fs0, SubDir)

(* --------------------------- C13 --------------------------------------- *)

\* The worker whose submission never returns.
HungWorker == 1

\* The files of the calls with a hung submission: at most this many.
HungMaxFiles == 3

\* Calls of the PDF service over trees of files that hold a PDF.
HungInit ==
  /\ dir = Root
  /\ service = "processFulltextDocument"
  /\ numWorkers \in 1..MaxWorkers
  /\ rf \in ResultFuncs
  /\ opts \in [Force : BOOLEAN, OutputDir : OutputDirs]
  /\ \E files \in SUBSET {f \in CandidateFiles : f.k = "pdf"} :
       /\ Cardinality(files) <= HungMaxFiles
       /\ fs = Tree(files, FALSE)
  /\ fs0 = fs
  /\ run = 1
  /\ firstOK = TRUE
  /\ Fresh
  /\ NoDirectCall

\* The steps of one call in which the submission of HungWorker does not return.
HungNext ==
  \/ Start
  \/ WalkDir
  \/ WalkFile
  \/ ClosePathC
  \/ CloseErrC
  \/ Return
  \/ AggDone
  \/ \E w \in Workers : Send(w)
  \/ \E w \in Workers : CheckProcessed(w)
  \/ \E w \in Workers \ {HungWorker} : SubmitReturn(w)
  \/ \E w \in Workers : Handle(w)
  \/ \E w \in Workers : SendErr(w)
  \/ \E w \in Workers : WorkerExit(w)

\* A step of a goroutine, the return of a result function included, the return
\* of the submission of HungWorker excluded.
HungStep ==
  \/ Start \/ WalkDir \/ WalkFile \/ ClosePathC \/ CloseErrC \/ Return \/ AggDone
  \/ \E w \in Workers :
       \/ Send(w) \/ CheckProcessed(w) \/ HandlerReturns(w)
       \/ SendErr(w) \/ WorkerExit(w)
  \/ \E w \in Workers \ {HungWorker} : SubmitReturn(w)

HungSpec == HungInit /\ [][HungNext]_vars /\ WF_pcvars(HungStep)

\* HungWorker is in a submission, with file f.
HungOn(f) == wpc[HungWorker] = "submit" /\ wpath[HungWorker] = f

\* Every eligible file but the one of the hung submission was submitted and handled.
OthersHandled ==
  \A f \in EligibleFiles(fs0) :
    HungOn(f) \/ (CopiesIn(f, submitted) >= 1 /\ CopiesIn(f, handled) >= 1)

\* The submission of HungWorker hangs, and every other eligible file was
\* submitted and handled.
Isolated == (\E f \in EligibleFiles(fs0) : HungOn(f)) /\ OthersHandled

\* C13: with two workers or more, a call returns (no submission hung), or the
\* submission of one worker hangs and every other eligible file is eventually
\* submitted and handled.
C13_OthersProceed ==
  (mpc = "start" /\ numWorkers >= 2 /\ (opts.Force \/ NoneProcessedBefore))
    ~> (Returned \/ Isolated)

\* The same for files with pairwise different output names.
C13_OthersProceedDistinct ==
  (mpc = "start" /\ numWorkers >= 2 /\ DistinctOutputs
     /\ (opts.Force \/ NoneProcessedBefore))
    ~> (Returned \/ Isolated)

\* HungWorker is in a submission and the other worker has handled two files.
C13_Witness == Isolated /\ BagCardinality(handled) = 2

(* --------------------------- direct calls ------------------------------ *)

\* The variables of ProcessDirRecursive while no call of it is running.
NoDirRun ==
  /\ dir = Root
  /\ numWorkers = 1
  /\ rf = "DebugResultWriter"
  /\ opts = [Force |-> FALSE, OutputDir |-> <<>>]
  /\ fs0 = fs
  /\ run = 1
  /\ firstOK = TRUE
  /\ Fresh

\* The direct call returns out.
Returns(out) ==
  /\ cout = NoCall
  /\ cout' = out
  /\ UNCHANGED <<cin, pdfVars, args, fs, mainVars, workerVars, aggVars, histVars>>

(* --------------------------- C14 --------------------------------------- *)

\* The file names of the direct submissions; z.pdf is in no tree.
SubmitNames ==
  {InDir(Root, "a", <<"pdf">>), InDir(Root, "a", <<"txt">>), InDir(Root, "z", <<"pdf">>)}

SubmitInit ==
  /\ service \in Services
  /\ \E files \in SUBSET CandidateFiles :
       /\ Cardinality(files) <= MaxFiles
       /\ fs = Tree(files, FALSE)
  /\ cin \in [fn : {"ProcessPDF", "ProcessText"}, filename : SubmitNames,
              http : HttpOutcomes]
  /\ cout = NoCall
  /\ NoPDF
  /\ NoDirRun

CallProcessPDF ==
  /\ cin.fn = "ProcessPDF"
  /\ Returns(ProcessPDF(cin.filename, service, fs, cin.http))

CallProcessText ==
  /\ cin.fn = "ProcessText"
  /\ Returns(ProcessText(cin.filename, service, fs, cin.http))

SubmitNext == CallProcessPDF \/ CallProcessText

\* One call of ProcessPDF or of ProcessText.
SubmitSpec == SubmitInit /\ [][SubmitNext]_vars

\* The call returned ErrInvalidService and no result, having touched neither
\* the file system nor the network.
FailedFast == cout.err = ErrInvalidService /\ cout.result.isNil /\ cout.io = <<>>

\* C14: ProcessPDF and ProcessText, called with a service name outside
\* ValidServices, return ErrInvalidService and no result before any I/O.
C14_InvalidServiceNoIO ==
  (cout # NoCall /\ ~IsValidService(service)) => FailedFast

\* The same for ProcessText alone.
C14_InvalidServiceNoIOText ==
  cin.fn = "ProcessText" => C14_InvalidServiceNoIO

(* --------------------------- C26 --------------------------------------- *)

\* The two numbers of the final log line, "processed %d docs, with %d errors".
ReportedProcessed == numProcessed

ReportedFailures == Len(errList)

\* C26: at the end of a run whose walk succeeded, the reported processed count
\* is the number of files submitted and handled in this run, files skipped as
\* already processed not counted, and the reported failure count is the number
\* of result function calls that returned an error.
C26_ReportedCounts ==
  WalkSucceeded =>
    /\ ReportedProcessed = BagCardinality(submitted)
    /\ ReportedProcessed = BagCardinality(handled)
    /\ ReportedFailures = BagCardinality(herrs)

\* The part about the failure count.
C26_ReportedFailures == WalkSucceeded => ReportedFailures = BagCardinality(herrs)

\* What the processed count is: the files sent to the workers, skipped or not.
C26_ProcessedCountsSkipped ==
  WalkSucceeded =>
    /\ ReportedProcessed = BagCardinality(handled) + skipped
    /\ BagCardinality(submitted) = BagCardinality(handled)

\* A run ended that handled a file and skipped another.
C26_Witness == WalkSucceeded /\ skipped > 0 /\ BagCardinality(handled) > 0

(* --------------------------- C28 --------------------------------------- *)

\* The input type of each valid service.
InputType ==
  [s \in ValidServices |->
     CASE s = "processCitationList" -> "text"
       [] s = "processCitationPatentST36" -> "xml"
       [] OTHER -> "pdf"]

\* The file at path has the input type of the selected, valid service.
HasInputType(fsys, path) ==
  /\ Exists(fsys, path)
  /\ ~IsDirKind(KindOf(fsys, path))
  /\ service \in ValidServices
  /\ InputType[service] \in DetectedTypes(path, KindOf(fsys, path))

\* The files below the root that have the input type of the service.
InputFiles(fsys) == {e.p : e \in {x \in fsys : UnderRoot(x.p) /\ HasInputType(fsys, x.p)}}

\* The walk is at a file of the input type of the service.
AtInputFile == mpc = "walk" /\ todo # <<>> /\ HasInputType(fs, Head(todo))

\* The walk function sends the file it is called with.
SendsFile == pending' = Head(todo) /\ mpc' = "send"

\* C28: for every valid service the walk sends each file of the input type of
\* the service that it visits, and no run for a valid service ends with
\* nothing sent although the tree held files of the input type.
C28_EveryServiceDispatches ==
  /\ [][(AtInputFile /\ todo' # todo) => SendsFile]_vars
  /\ []((WalkSucceeded /\ InputFiles(fs0) # {}) => numProcessed > 0)

\* The services of the switch of the walk function.
SwitchServices ==
  {"processFulltextDocument", "processCitationList", "processCitationPatentST36"}

\* The same for the three services the walk function names.
C28_SwitchServicesDispatch ==
  /\ [][(service \in SwitchServices /\ AtInputFile /\ todo' # todo) => SendsFile]_vars
  /\ []((service \in SwitchServices /\ WalkSucceeded /\ InputFiles(fs0) # {})
          => numProcessed > 0)

\* For the other services nothing is ever sent.
C28_OtherServicesSendNothing ==
  [](service \notin SwitchServices => (numProcessed = 0 /\ pending = <<>>))

\* A run for processHeaderDocument over a tree with a PDF file has ended.
C28_Witness ==
  /\ WalkSucceeded
  /\ service = "processHeaderDocument"
  /\ InputFiles(fs0) # {}

(* --------------------------- C29 --------------------------------------- *)

\* The walk has sent its last path: filepath.Walk has returned and no send on
\* pathC is under way.
WalkOver == mpc \in {"wait", "waitDone", "returned"} /\ todo = <<>> /\ pending = <<>>

AllWorkersExited == \A w \in Workers : wpc[w] = "exited"

\* The aggregator has received the value of every call of the result
\* function, and has ended.
AllConsumed ==
  /\ apc = "exited"
  /\ done - skipped = BagCardinality(handled)
  /\ Len(errList) = BagCardinality(herrs)

\* C29: no goroutine sends on a closed channel and the error list is never
\* read while it can still change: pathC is closed only after the walk has
\* sent its last path, errC only after every worker has exited, and the caller
\* reads errList only after the aggregator has consumed every value.
C29_ChannelDiscipline ==
  /\ [](pathCClosed => WalkOver)
  /\ [](errCClosed => (pathCClosed /\ AllWorkersExited))
  /\ [](WalkSucceeded => (errCClosed /\ AllConsumed))
  /\ [][(WalkSucceeded /\ run' = run) => errList' = errList]_vars

\* A run with two workers has closed both channels and returned the error of
\* a result function call.
C29_Witness ==
  /\ WalkSucceeded
  /\ numWorkers = 2
  /\ pathCClosed /\ errCClosed
  /\ Len(errList) > 0

(* ======================= package tei: the TEI parser =================== *)

(* --------------------------- strings and trees ------------------------- *)

\* A string is a sequence of tokens; SP is a run of white space.
SP == " "

\* The end of a line.
NL == "\n"

\* White space, as strings.TrimSpace takes it.
White == {SP, NL}

RECURSIVE TrimLeft(_)
TrimLeft(s) == IF s # <<>> /\ Head(s) \in White THEN TrimLeft(Tail(s)) ELSE s

RECURSIVE TrimRight(_)
TrimRight(s) ==
  IF s # <<>> /\ s[Len(s)] \in White THEN TrimRight(SubSeq(s, 1, Len(s) - 1)) ELSE s

\* strings.TrimSpace
TrimSpace(s) == TrimRight(TrimLeft(s))

\* The TEI namespace, const NS.
NS == <<"http://www.tei-c.org/ns/1.0">>

\* An element: tag, attributes (a function from names to strings), the text
\* after its start tag, the text after its end tag, its child elements.
Elem(t, a, x, k) == [tag |-> t, attrs |-> a, text |-> x, tail |-> <<>>, kids |-> k]

\* An etree.Document: the element that holds the root, if there is one.
Document(roots) == Elem("", <<>>, <<>>, roots)

\* The element of tree d at index path ip (the indices of the children taken).
RECURSIVE At(_, _)
At(d, ip) == IF ip = <<>> THEN d ELSE At(d.kids[Head(ip)], Tail(ip))

\* Element.ChildElements, as index paths.
ChildElements(d, ip) == [i \in 1..Len(At(d, ip).kids) |-> Append(ip, i)]

\* Document.Root: the index path of the root element, <<>> for nil.
TreeRoot(d) == IF d.kids = <<>> THEN <<>> ELSE << <<1>> >>

RECURSIVE Flatten(_)
Flatten(ss) == IF ss = <<>> THEN <<>> ELSE Head(ss) \o Flatten(Tail(ss))

\* etree path "//": the element and its descendants, taken from a queue, so
\* level by level.
RECURSIVE selectDescendants(_, _)
selectDescendants(d, queue) ==
  IF queue = <<>> THEN <<>>
  ELSE <<Head(queue)>>
         \o selectDescendants(d, Tail(queue) \o ChildElements(d, Head(queue)))

\* Element.NamespaceURI for an element without prefix: the nearest xmlns
\* attribute on the element or an ancestor.
RECURSIVE NamespaceURI(_, _)
NamespaceURI(d, ip) ==
  IF "xmlns" \in DOMAIN At(d, ip).attrs THEN At(d, ip).attrs["xmlns"]
  ELSE IF ip = <<>> THEN <<>>
  ELSE NamespaceURI(d, SubSeq(ip, 1, Len(ip) - 1))

\* Element.SelectAttrValue(key, "")
SelectAttrValue(e, key) == IF key \in DOMAIN e.attrs THEN e.attrs[key] ELSE <<>>

\* A filter of a path segment: [@name='val'], [@name], [namespace-uri()='val']
\* or [name='val'] (a child element name with text val).
FilterHolds(d, ip, f) ==
  LET e == At(d, ip)
  IN CASE f.k = "attr" -> f.name \in DOMAIN e.attrs /\ e.attrs[f.name] = f.val
       [] f.k = "hasattr" -> f.name \in DOMAIN e.attrs
       [] f.k = "ns" -> NamespaceURI(d, ip) = f.val
       [] OTHER -> \E i \in 1..Len(e.kids) :
                     e.kids[i].tag = f.name /\ e.kids[i].text = f.val

\* A path segment "tag[filter]...": the children of ip it selects.
ApplySegment(d, ip, seg) ==
  LET Sel(c) == /\ (seg.tag = "*" \/ At(d, c).tag = seg.tag)
                /\ \A f \in seg.filters : FilterHolds(d, c, f)
  IN SelectSeq(ChildElements(d, ip), Sel)

RECURSIVE ApplySegments(_, _, _)
ApplySegments(d, cur, segs) ==
  IF segs = <<>> THEN cur
  ELSE ApplySegments(d,
         Flatten([i \in 1..Len(cur) |-> ApplySegment(d, cur[i], Head(segs))]),
         Tail(segs))

\* Element.FindElements(path) for the paths "./a/b" (deep FALSE) and ".//a/b"
\* (deep TRUE): the elements found, in the order etree yields them.
FindElements(d, ip, deep, segs) ==
  ApplySegments(d, IF deep THEN selectDescendants(d, <<ip>>) ELSE <<ip>>, segs)

\* Element.FindElement(path): the first element found, <<>> for nil.
FindElement(d, ip, deep, segs) ==
  LET First(found) == IF found = <<>> THEN <<>> ELSE <<found[1]>>
  IN First(FindElements(d, ip, deep, segs))

\* The attribute of an element that may be nil and its text, both empty for
\* nil.
AttrOf(d, el, key) == IF el = <<>> THEN <<>> ELSE SelectAttrValue(At(d, el[1]), key)

TextOf(d, el) == IF el = <<>> THEN <<>> ELSE At(d, el[1]).text

\* findElementText
findElementText(d, ip, deep, segs) == TextOf(d, FindElement(d, ip, deep, segs))

(* --------------------------- path segments ----------------------------- *)

\* "tag"
Seg(tag) == [tag |-> tag, filters |-> {}]

\* "tag[@name='val']"
SegAttr(tag, name, val) ==
  [tag |-> tag, filters |-> {[k |-> "attr", name |-> name, val |-> <<val>>]}]

\* "tag[namespace-uri()='val']"
SegNS(tag, val) ==
  [tag |-> tag, filters |-> {[k |-> "ns", name |-> "", val |-> val]}]

\* "tag[namespace-uri='val']": without the parentheses the filter asks for a
\* child element named namespace-uri with the text val.
SegChild(tag, val) ==
  [tag |-> tag, filters |-> {[k |-> "child", name |-> "namespace-uri", val |-> val]}]

(* --------------------------- text -------------------------------------- *)

\* iterText: the text of the element, of each child in turn, and its tail.
RECURSIVE iterText(_, _)
iterText(d, ip) ==
  <<At(d, ip).text>>
    \o Flatten([i \in 1..Len(At(d, ip).kids) |-> iterText(d, Append(ip, i))])
    \o <<At(d, ip).tail>>

\* iterTextTrimSpace of an element that may be nil: the trimmed texts that are
\* not empty.
iterTextTrimSpace(d, el) ==
  LET TrimAll(ts) == [i \in 1..Len(ts) |-> TrimSpace(ts[i])]
  IN IF el = <<>> THEN <<>>
     ELSE SelectSeq(TrimAll(iterText(d, el[1])), LAMBDA c : Len(c) # 0)

\* strings.Join(parts, " ")
RECURSIVE JoinSP(_)
JoinSP(parts) ==
  IF parts = <<>> THEN <<>>
  ELSE IF Len(parts) = 1 THEN parts[1]
  ELSE parts[1] \o <<SP>> \o JoinSP(Tail(parts))

\* The number of characters of a string: the tokens of one character, and
\* three for every other token.
RECURSIVE CharLen(_)
CharLen(s) ==
  IF s = <<>> THEN 0
  ELSE (IF Head(s) \in {SP, "<", ">", "-"} THEN 1 ELSE 3) + CharLen(Tail(s))

(* --------------------------- authors ----------------------------------- *)

\* The text of the last element of els whose type attribute is t.
RECURSIVE LastOfType(_, _, _)
LastOfType(d, els, t) ==
  IF els = <<>> THEN <<>>
  ELSE IF SelectAttrValue(At(d, els[Len(els)]), "type") = <<t>>
  THEN At(d, els[Len(els)]).text
  ELSE LastOfType(d, SubSeq(els, 1, Len(els) - 1), t)

\* parseAffiliation: <<>> for nil.  isEmpty is asked before the address is read.
parseAffiliation(d, ip) ==
  LET AddressPaths == [AddrLine |-> "addrLine", PostCode |-> "postCode",
                       Settlement |-> "settlement", Country |-> "country"]
      Address(addrTag) ==
        IF addrTag = <<>> THEN <<>>
        ELSE <<[f \in DOMAIN AddressPaths |->
                  findElementText(d, addrTag[1], FALSE, <<Seg(AddressPaths[f])>>)]>>
      Affiliation(orgs) ==
        [Institution |-> LastOfType(d, orgs, "institution"),
         Department  |-> LastOfType(d, orgs, "department"),
         Laboratory  |-> LastOfType(d, orgs, "laboratory"),
         Address     |-> <<>>]
      Checked(ga) ==
        IF ga.Institution = <<>> /\ ga.Department = <<>> /\ ga.Laboratory = <<>>
           /\ ga.Address = <<>>
        THEN <<>>
        ELSE <<[ga EXCEPT !.Address = Address(FindElement(d, ip, FALSE, <<Seg("address")>>))]>>
  IN Checked(Affiliation(FindElements(d, ip, FALSE, <<Seg("orgName")>>)))

\* parsePersName, for an element that is not nil.
parsePersName(d, ip) ==
  LET NamePaths == [GivenName  |-> <<SegAttr("forename", "type", "first")>>,
                    MiddleName |-> <<SegAttr("forename", "type", "middle")>>,
                    Surname    |-> <<Seg("surname")>>]
      Name(text) ==
        [FullName    |-> JoinSP(iterTextTrimSpace(d, <<ip>>)),
         GivenName   |-> text["GivenName"],
         MiddleName  |-> text["MiddleName"],
         Surname     |-> text["Surname"],
         Email       |-> <<>>,
         ORCID       |-> <<>>,
         Affiliation |-> <<>>]
  IN Name([f \in DOMAIN NamePaths |-> findElementText(d, ip, FALSE, NamePaths[f])])

\* parseAuthor: <<>> for nil.
parseAuthor(d, ip) ==
  LET AuthorPaths == [ORCID |-> <<SegAttr("idno", "type", "ORCID")>>,
                      Email |-> <<Seg("email")>>]
      Aff(affiliationTag) ==
        IF affiliationTag = <<>> THEN <<>> ELSE parseAffiliation(d, affiliationTag[1])
      Author(persNameTag, text) ==
        IF persNameTag = <<>> THEN <<>>
        ELSE <<[parsePersName(d, persNameTag[1]) EXCEPT
                  !.ORCID = text["ORCID"],
                  !.Email = text["Email"],
                  !.Affiliation = Aff(FindElement(d, ip, FALSE, <<Seg("affiliation")>>))]>>
  IN Author(FindElement(d, ip, FALSE, <<Seg("persName")>>),
            [f \in DOMAIN AuthorPaths |-> findElementText(d, ip, FALSE, AuthorPaths[f])])

\* parseEditor: the persons of an editor element.
parseEditor(d, ip) ==
  LET Named(trimmed) ==
        <<[FullName |-> trimmed, GivenName |-> <<>>, MiddleName |-> <<>>,
           Surname |-> <<>>, Email |-> <<>>, ORCID |-> <<>>, Affiliation |-> <<>>]>>
      Bare(rawName, trimmed) ==
        IF FindElement(d, ip, FALSE, <<Seg("*")>>) = <<>>
           /\ CharLen(rawName) > 0 /\ CharLen(trimmed) > 2
        THEN Named(trimmed)
        ELSE <<>>
      Persons(persNameTags) ==
        IF Len(persNameTags) = 0
        THEN Bare(At(d, ip).text, TrimSpace(At(d, ip).text))
        ELSE [i \in 1..Len(persNameTags) |-> parsePersName(d, persNameTags[i])]
  IN Persons(FindElements(d, ip, FALSE, <<SegChild("persName", NS)>>))

(* --------------------------- biblio ------------------------------------ *)

\* strings.Contains(s, tok) for a token
Contains(s, tok) == \E i \in 1..Len(s) : s[i] = tok

\* strings.Replace(s, tok, "", 1): s without the first tok.
RECURSIVE RemoveFirst(_, _)
RemoveFirst(s, tok) ==
  IF s = <<>> THEN <<>>
  ELSE IF Head(s) = tok THEN Tail(s)
  ELSE <<Head(s)>> \o RemoveFirst(Tail(s), tok)

\* strings.Split(s, tok)[0]: s up to the first tok.
RECURSIVE UpTo(_, _)
UpTo(s, tok) ==
  IF s = <<>> \/ Head(s) = tok THEN <<>> ELSE <<Head(s)>> \o UpTo(Tail(s), tok)

\* cleanURL
cleanURL(u) ==
  LET t1 == TrimSpace(u)
      t2 == IF t1 # <<>> /\ t1[Len(t1)] = ".Lastaccessed"
            THEN RemoveFirst(t1, ".Lastaccessed") ELSE t1
      t3 == IF t2 # <<>> /\ Head(t2) = "<" THEN Tail(t2) ELSE t2
  IN IF Len(u) = 0 THEN u
     ELSE IF Contains(t3, ">") THEN UpTo(t3, ">") ELSE t3

\* The authors of parseBiblio: the author elements that parseAuthor takes.
Authors(d, ip) ==
  LET Each(tags) == Flatten([i \in 1..Len(tags) |-> parseAuthor(d, tags[i])])
  IN Each(FindElements(d, ip, TRUE, <<Seg("author")>>))

\* The editors of parseBiblio: those of the editor elements, then those of
\* the contributors with the role editor.
Editors(d, ip) ==
  LET EditorPaths == <<SegChild("editor", NS), SegAttr("contributor", "role", "editor")>>
      Each(tags) == Flatten([i \in 1..Len(tags) |-> parseEditor(d, tags[i])])
  IN Each(Flatten([k \in 1..2 |-> FindElements(d, ip, TRUE, <<EditorPaths[k]>>)]))

\* The paths of parseBiblio whose first element gives its text to a field.
TextPaths ==
  [Unstructured  |-> <<SegAttr("note", "type", "raw_reference")>>,
   Title         |-> <<SegAttr("title", "type", "main")>>,
   Journal       |-> <<SegAttr("title", "level", "j")>>,
   JournalAbbrev |-> <<[tag |-> "title",
                        filters |-> {[k |-> "attr", name |-> "level", val |-> <<"j">>],
                                     [k |-> "attr", name |-> "type", val |-> <<"abbrev">>]}]>>,
   SeriesTitle   |-> <<SegAttr("title", "level", "s")>>,
   Publisher     |-> <<Seg("publicationStmt"), Seg("publisher")>>,
   Imprint       |-> <<Seg("imprint"), Seg("publisher")>>,
   Institution   |-> <<Seg("respStmt"), Seg("orgName")>>,
   Volume        |-> <<SegAttr("biblScope", "unit", "volume")>>,
   Issue         |-> <<SegAttr("biblScope", "unit", "issue")>>,
   DOI           |-> <<SegAttr("idno", "type", "DOI")>>,
   PMID          |-> <<SegAttr("idno", "type", "PMID")>>,
   PMCID         |-> <<SegAttr("idno", "type", "PMCID")>>,
   ArxivID       |-> <<SegAttr("idno", "type", "arXiv")>>,
   PII           |-> <<SegAttr("idno", "type", "PII")>>,
   Ark           |-> <<SegAttr("idno", "type", "ark")>>,
   IsTexID       |-> <<SegAttr("idno", "type", "istexId")>>,
   ISSN          |-> <<SegAttr("idno", "type", "ISSN")>>,
   EISSN         |-> <<SegAttr("idno", "type", "eISSN")>>]

\* The paths of parseBiblio whose first element is looked at.
TagPaths ==
  [bookTitleTag |-> <<SegAttr("title", "level", "m")>>,
   noteTag      |-> <<Seg("note")>>,
   dateTag      |-> <<SegAttr("date", "type", "published")>>,
   page         |-> <<SegAttr("biblScope", "unit", "page")>>,
   ptr          |-> <<[tag |-> "ptr",
                       filters |-> {[k |-> "hasattr", name |-> "target", val |-> <<>>]}]>>]

Pages_RawText(d, el) == TextOf(d, el)

\* The Pages of parseBiblio for the page element el, which may be nil: from
\* and to joined when both are set, else the text of the element.
Pages(d, el) ==
  IF el = <<>> THEN <<>>
  ELSE IF AttrOf(d, el, "from") # <<>> /\ AttrOf(d, el, "to") # <<>>
  THEN AttrOf(d, el, "from") \o <<"-">> \o AttrOf(d, el, "to")
  ELSE TextOf(d, el)

\* parseBiblio, with Index 0 as in a new GrobidBiblio.
parseBiblio(d, ip) ==
  LET Biblio(text, tag, book, url) ==
        [Authors       |-> Authors(d, ip),
         Index         |-> 0,
         ID            |-> SelectAttrValue(At(d, ip), "id"),
         Unstructured  |-> text["Unstructured"],
         Date          |-> AttrOf(d, tag["dateTag"], "when"),
         Title         |-> IF book # <<>> /\ text["Title"] = <<>> THEN book ELSE text["Title"],
         BookTitle     |-> IF book # <<>> /\ text["Title"] = <<>> THEN <<>> ELSE book,
         SeriesTitle   |-> text["SeriesTitle"],
         Editors       |-> Editors(d, ip),
         Journal       |-> text["Journal"],
         JournalAbbrev |-> text["JournalAbbrev"],
         Publisher     |-> IF text["Publisher"] = <<>> THEN text["Imprint"]
                           ELSE text["Publisher"],
         Institution   |-> text["Institution"],
         ISSN          |-> text["ISSN"],
         EISSN         |-> text["EISSN"],
         Volume        |-> text["Volume"],
         Issue         |-> text["Issue"],
         Pages         |-> Pages(d, tag["page"]),
         FirstPage     |-> AttrOf(d, tag["page"], "from"),
         LastPage      |-> AttrOf(d, tag["page"], "to"),
         Note          |-> IF AttrOf(d, tag["noteTag"], "type") = <<>>
                           THEN TextOf(d, tag["noteTag"]) ELSE <<>>,
         DOI           |-> text["DOI"],
         PMID          |-> text["PMID"],
         PMCID         |-> text["PMCID"],
         ArxivID       |-> IF text["ArxivID"] # <<>> /\ Head(text["ArxivID"]) = "arXiv:"
                           THEN Tail(text["ArxivID"]) ELSE text["ArxivID"],
         PII           |-> text["PII"],
         Ark           |-> text["Ark"],
         IsTexID       |-> text["IsTexID"],
         URL           |-> IF text["DOI"] # <<>> /\ url # <<>>
                              /\ (Contains(url, "://doi.org/") \/ Contains(url, "://dx.doi.org/"))
                           THEN <<>> ELSE url]
      Titled(text, tag) ==
        Biblio(text, tag,
               IF AttrOf(d, tag["bookTitleTag"], "type") = <<>>
               THEN TextOf(d, tag["bookTitleTag"]) ELSE <<>>,
               cleanURL(AttrOf(d, tag["ptr"], "target")))
  IN Titled([f \in DOMAIN TextPaths |-> findElementText(d, ip, TRUE, TextPaths[f])],
            [f \in DOMAIN TagPaths |-> FindElement(d, ip, TRUE, TagPaths[f])])

\* anyString
anyString(vs) == \E i \in 1..Len(vs) : vs[i] # <<>>

\* GrobidBiblio.IsEmpty
IsEmpty(g) ==
  IF Len(g.Authors) > 0 \/ Len(g.Editors) > 0 THEN FALSE
  ELSE ~anyString(<<g.Date, g.Title, g.Journal, g.Publisher, g.Volume, g.Issue,
                    g.Pages, g.DOI, g.PMID, g.PMCID, g.ArxivID, g.URL>>)

(* --------------------------- reading XML ------------------------------- *)

\* XML text is a sequence of pieces: a start tag with its attributes, an end
\* tag, character data, or bytes that are no XML token.
StartTag(tag, attrs) == [t |-> "start", tag |-> tag, attrs |-> attrs, data |-> <<>>]

EndTag(tag) == [t |-> "end", tag |-> tag, attrs |-> <<>>, data |-> <<>>]

CharData(data) == [t |-> "chars", tag |-> "", attrs |-> <<>>, data |-> data]

Garbage == [t |-> "garbage", tag |-> "", attrs |-> <<>>, data |-> <<>>]

\* The error of the XML decoder for bytes that are no token, and etree.ErrXML.
SyntaxError == <<"XML syntax error">>

ErrXML == <<"etree: invalid XML format">>

\* var ErrInvalidDocument
ErrInvalidDocument == <<"invalid document">>

\* The open elements, outermost first, with the innermost put into its parent:
\* every element is a child of its parent from its start tag on.
Attach(stack) ==
  LET n == Len(stack)
  IN Append(SubSeq(stack, 1, n - 2),
            [stack[n - 1] EXCEPT !.kids = Append(@, stack[n])])

RECURSIVE Collapse(_)
Collapse(stack) == IF Len(stack) = 1 THEN stack[1] ELSE Collapse(Attach(stack))

\* Character data inside e: text before the first child, the tail of the last
\* child after it.
AddCharData(e, data) ==
  IF e.kids = <<>> THEN [e EXCEPT !.text = @ \o data]
  ELSE [e EXCEPT !.kids[Len(e.kids)].tail = @ \o data]

\* Element.readFrom: the loop over the tokens of the decoder.  It returns the
\* tree built so far and the error.
RECURSIVE readFrom(_, _)
readFrom(text, stack) ==
  LET top == stack[Len(stack)]
      n   == Len(stack)
  IN IF text = <<>>
     THEN [tree |-> Collapse(stack), err |-> IF n # 1 THEN ErrXML ELSE Nil]
     ELSE CASE Head(text).t = "garbage" ->
                 [tree |-> Collapse(stack), err |-> SyntaxError]
            [] Head(text).t = "start" ->
                 readFrom(Tail(text),
                          Append(stack, Elem(Head(text).tag, Head(text).attrs, <<>>, <<>>)))
            [] Head(text).t = "end" ->
                 IF n = 1 \/ top.tag # Head(text).tag
                 THEN [tree |-> Collapse(stack), err |-> ErrXML]
                 ELSE readFrom(Tail(text), Attach(stack))
            [] OTHER ->
                 readFrom(Tail(text),
                          [stack EXCEPT ![n] = AddCharData(top, Head(text).data)])

\* Document.ReadFrom and Document.ReadFromString on a new document.
ReadFrom(text) == readFrom(text, <<Document(<<>>)>>)

\* strings.Replace(xmlText, `xmlns="http://www.tei-c.org/ns/1.0"`, ``, 1)
RECURSIVE StripFirstXmlns(_)
StripFirstXmlns(text) ==
  IF text = <<>> THEN <<>>
  ELSE IF Head(text).t = "start" /\ "xmlns" \in DOMAIN Head(text).attrs
          /\ Head(text).attrs["xmlns"] = NS
  THEN <<[Head(text) EXCEPT !.attrs =
            [k \in DOMAIN Head(text).attrs \ {"xmlns"} |-> Head(text).attrs[k]]]>>
         \o Tail(text)
  ELSE <<Head(text)>> \o StripFirstXmlns(Tail(text))

(* --------------------------- citations --------------------------------- *)

\* The records of a list of elements, each with its position as Index.
Numbered(d, els) == [i \in 1..Len(els) |-> [parseBiblio(d, els[i]) EXCEPT !.Index = i - 1]]

\* ParseCitationList: the records, <<>> for nil.  The error of ReadFromString
\* is dropped and the tree read so far is used.  A root that is a biblStruct
\* is the only node and gets Index 0.
ParseCitationList(xmlText) ==
  LET Nodes(tree, root) ==
        IF root = <<>> THEN <<>>
        ELSE IF At(tree, root[1]).tag = "biblStruct" THEN root
        ELSE FindElements(tree, <<>>, TRUE, <<Seg("biblStruct")>>)
      Records(tree) == Numbered(tree, Nodes(tree, TreeRoot(tree)))
  IN Records(ReadFrom(StripFirstXmlns(xmlText)).tree)

ParseCitation_KeepIndex(xmlText) ==
  LET First(cl) == IF Len(cl) = 0 \/ IsEmpty(cl[1]) THEN <<>> ELSE <<cl[1]>>
  IN First(ParseCitationList(xmlText))

\* ParseCitation: <<>> for nil.
ParseCitation(xmlText) ==
  LET Sentinel(c) == IF IsEmpty(c) THEN <<>> ELSE <<c>>
      First(cl) == IF Len(cl) = 0 THEN <<>> ELSE Sentinel([cl[1] EXCEPT !.Index = -1])
  IN First(ParseCitationList(xmlText))

(* --------------------------- documents --------------------------------- *)

\* The value a function returns when it does not return: a nil pointer was
\* dereferenced.
Panic == [doc |-> <<>>, err |-> Nil, panic |-> TRUE]

\* return nil, err
Fails(e) == [doc |-> <<>>, err |-> e, panic |-> FALSE]

\* strings.Join(iterTextTrimSpace(el), " ") of the first element of a path,
\* the empty string without one.
JoinedText(d, ip, segs) ==
  LET Joined(el) == IF el = <<>> THEN <<>> ELSE JoinSP(iterTextTrimSpace(d, el))
  IN Joined(FindElement(d, ip, TRUE, segs))

\* The paths of ParseDocument whose first element gives its texts to a field.
SectionPaths ==
  [Abstract        |-> <<Seg("profileDesc"), Seg("abstract")>>,
   Body            |-> <<Seg("text"), Seg("body")>>,
   Acknowledgement |-> <<Seg("back"), SegAttr("div", "type", "acknowledgement")>>,
   Annex           |-> <<Seg("back"), SegAttr("div", "type", "annex")>>]

\* ParseDocument
ParseDocument(r) ==
  LET Doc(tree, tei, header, applicationTag, section) ==
        IF "version" \notin DOMAIN applicationTag.attrs
           \/ "when" \notin DOMAIN applicationTag.attrs
        THEN Panic
        ELSE [doc |-> <<[GrobidVersion   |-> TrimSpace(applicationTag.attrs["version"]),
                         GrobidTs        |-> TrimSpace(applicationTag.attrs["when"]),
                         Header          |-> <<parseBiblio(tree, header)>>,
                         PDFMD5          |-> findElementText(tree, header, TRUE,
                                               <<SegAttr("idno", "type", "MD5")>>),
                         LanguageCode    |-> AttrOf(tree,
                                               FindElement(tree, tei, TRUE, <<Seg("text")>>),
                                               "lang"),
                         Citations       |-> Numbered(tree,
                                               FindElements(tree, tei, TRUE,
                                                 <<Seg("listBibl"), Seg("biblStruct")>>)),
                         Abstract        |-> section["Abstract"],
                         Body            |-> section["Body"],
                         Acknowledgement |-> section["Acknowledgement"],
                         Annex           |-> section["Annex"]]>>,
              err |-> Nil, panic |-> FALSE]
      WithApplication(tree, tei, header, applicationTags) ==
        IF Len(applicationTags) = 0 THEN Fails(ErrInvalidDocument)
        ELSE Doc(tree, tei, header, At(tree, applicationTags[1]),
                 [f \in DOMAIN SectionPaths |-> JoinedText(tree, tei, SectionPaths[f])])
      WithHeader(tree, tei, header) ==
        IF header = <<>> THEN Fails(ErrInvalidDocument)
        ELSE WithApplication(tree, tei, header[1],
               FindElements(tree, header[1], TRUE,
                            <<SegNS("appInfo", NS), SegNS("application", NS)>>))
      WithRoot(tree, root) ==
        IF root = <<>> THEN Fails(ErrInvalidDocument)
        ELSE WithHeader(tree, root[1],
                        FindElement(tree, root[1], TRUE, <<SegNS("teiHeader", NS)>>))
      Read(read) ==
        IF read.err # Nil THEN Fails(read.err)
        ELSE WithRoot(read.tree, TreeRoot(read.tree))
  IN Read(ReadFrom(r))

(* --------------------------- inputs of the parser ---------------------- *)

\* <tag attrs>content</tag>
El(tag, attrs, content) == <<StartTag(tag, attrs)>> \o content \o <<EndTag(tag)>>

NoAttrs == <<>>

Chars(tok) == <<CharData(<<tok>>)>>

\* <biblStruct xml:id="id">content</biblStruct>
Bibl(id, content) == El("biblStruct", [id |-> <<id>>], content)

\* What a biblStruct of the inputs holds.
BiblContents ==
  [empty  |-> <<>>,
   title  |-> El("title", [type |-> <<"main">>, level |-> <<"a">>], Chars("Title")),
   raw    |-> El("note", [type |-> <<"raw_reference">>], Chars("Raw")),
   pii    |-> El("idno", [type |-> <<"PII">>], Chars("S0001")),
   series |-> El("title", [level |-> <<"s">>], Chars("Series")),
   author |-> El("author", NoAttrs,
                 El("persName", NoAttrs, El("surname", NoAttrs, Chars("Doe"))))]

\* The text with its last piece missing, or followed by bytes that are no XML.
Damages == {"ok", "truncated", "garbage"}

Damage(text, dmg) ==
  CASE dmg = "truncated" -> SubSeq(text, 1, Len(text) - 1)
    [] dmg = "garbage" -> Append(text, Garbage)
    [] OTHER -> text

\* The attributes of a root element, with or without the TEI namespace
\* declaration.
RootAttrs(ns) == IF ns THEN [xmlns |-> NS] ELSE NoAttrs

\* The citation fragments: a biblStruct as root, or a wrapper with no
\* biblStruct, with three at one depth, or with three at different depths.
FragmentLayouts == {"none", "flat", "mixed"}

Fragment(layout, ns) ==
  El("listBibl", RootAttrs(ns),
     CASE layout = "flat" ->
            Bibl("b0", BiblContents.title) \o Bibl("b1", BiblContents.empty)
              \o Bibl("b2", BiblContents.pii)
       [] layout = "mixed" ->
            El("div", NoAttrs, Bibl("b0", BiblContents.title))
              \o Bibl("b1", BiblContents.author)
              \o El("div", NoAttrs, El("div", NoAttrs, Bibl("b2", BiblContents.raw)))
       [] OTHER -> El("head", NoAttrs, Chars("References")))

\* The values of the from and of the to attribute of a page element: no
\* attribute, an empty one, a page number.
PageAttrs == {"absent", "empty", "set"}

\* <biblScope unit="page" from=... to=...>raw</biblScope>
PageScope(from, to, raw) ==
  El("biblScope",
     [k \in {"unit"} \cup (IF from = "absent" THEN {} ELSE {"from"})
                     \cup (IF to = "absent" THEN {} ELSE {"to"}) |->
        CASE k = "unit" -> <<"page">>
          [] k = "from" -> (IF from = "set" THEN <<"235">> ELSE <<>>)
          [] OTHER -> (IF to = "set" THEN <<"243">> ELSE <<>>)],
     IF raw THEN Chars("pp. 9-17") ELSE <<>>)

\* The citations with a page element.
PageFragments ==
  {El("biblStruct", NoAttrs, BiblContents.title \o PageScope(from, to, raw)) :
     from \in PageAttrs, to \in PageAttrs, raw \in BOOLEAN}

Fragments ==
  PageFragments \cup
  {Damage(Fragment(layout, ns), dmg) :
     layout \in FragmentLayouts, ns \in BOOLEAN, dmg \in Damages}
  \cup {Damage(El("biblStruct", RootAttrs(ns), BiblContents[c]), dmg) :
          c \in DOMAIN BiblContents, ns \in BOOLEAN, dmg \in Damages}
  \cup {Chars("this is not XML"), <<>>}

\* The application annotation of a header: none, with both attributes, without
\* version, without when, with blank attributes.
Applications == {"none", "full", "noversion", "nowhen", "blank"}

AppInfo(app) ==
  IF app = "none" THEN El("appInfo", NoAttrs, <<>>)
  ELSE El("appInfo", NoAttrs,
          El("application",
             CASE app = "full" -> [version |-> <<"0.8.0">>, when |-> <<"2024-01-01">>]
               [] app = "noversion" -> [when |-> <<"2024-01-01">>]
               [] app = "nowhen" -> [version |-> <<"0.8.0">>]
               [] OTHER -> [version |-> <<SP>>, when |-> <<SP>>],
             <<>>))

\* The citations of a document: none, two in one listBibl, two in listBibl
\* elements at different depths, one outside any listBibl.
CitationLayouts == {"none", "flat", "nested", "outside"}

Back(cites) ==
  El("back", NoAttrs,
     CASE cites = "flat" ->
            El("listBibl", NoAttrs,
               Bibl("b0", BiblContents.title) \o Bibl("b1", BiblContents.empty))
       [] cites = "nested" ->
            El("div", NoAttrs, El("listBibl", NoAttrs, Bibl("b0", BiblContents.title)))
              \o El("listBibl", NoAttrs, Bibl("b1", BiblContents.author))
       [] cites = "outside" ->
            El("div", NoAttrs, Bibl("b0", BiblContents.title))
       [] OTHER -> <<>>)

\* A TEI document; header tells whether it has a teiHeader.
TeiDocument(ns, header, app, cites) ==
  El("TEI", RootAttrs(ns),
     (IF header
      THEN El("teiHeader", NoAttrs,
              El("title", [type |-> <<"main">>], Chars("Title")) \o AppInfo(app))
      ELSE <<>>)
     \o El("text", [lang |-> <<"en">>],
           El("body", NoAttrs, <<CharData(<<SP, "Body", SP>>)>>) \o Back(cites)))

Documents ==
  {Damage(TeiDocument(ns, header, app, cites), dmg) :
     ns \in BOOLEAN, header \in BOOLEAN, app \in Applications,
     cites \in CitationLayouts, dmg \in Damages}
  \cup {Chars("this is not XML"), El("xml", NoAttrs, <<>>), <<>>}

\* The names of the fields of a GrobidBiblio that hold a string.
StringFields ==
  {"ID", "Unstructured", "Date", "Title", "BookTitle", "SeriesTitle", "Journal",
   "JournalAbbrev", "Publisher", "Institution", "ISSN", "EISSN", "Volume", "Issue",
   "Pages", "FirstPage", "LastPage", "Note", "DOI", "PMID", "PMCID", "ArxivID",
   "PII", "Ark", "IsTexID", "URL"}

\* The maximal number of fields set in a record given to IsEmpty.
MaxFields == 2

SomeAuthor ==
  [FullName |-> <<"Doe">>, GivenName |-> <<>>, MiddleName |-> <<>>,
   Surname |-> <<"Doe">>, Email |-> <<>>, ORCID |-> <<>>, Affiliation |-> <<>>]

\* The record in which exactly the fields of set hold something.
BiblioWith(set) ==
  [f \in StringFields \cup {"Authors", "Editors", "Index"} |->
     IF f = "Index" THEN 0
     ELSE IF f \in {"Authors", "Editors"}
     THEN (IF f \in set THEN <<SomeAuthor>> ELSE <<>>)
     ELSE (IF f \in set THEN <<"x">> ELSE <<>>)]

\* The sets of at most n fields.
RECURSIVE FieldSets(_)
FieldSets(n) ==
  IF n = 0 THEN {{}}
  ELSE {s \cup {f} : s \in FieldSets(n - 1),
                     f \in StringFields \cup {"Authors", "Editors"}}
         \cup FieldSets(n - 1)

Biblios == {BiblioWith(set) : set \in FieldSets(MaxFields)}

\* The affiliation elements given to parseAffiliation: with or without each
\* of the three typed organisation names, with an organisation name of another
\* type, and without address, with an empty one or with a filled one.
AddressKinds == {"none", "empty", "full"}

\* The texts given to iterTextTrimSpace: <a>lead<b>inner</b>tail<c>last</c>end</a>
\* where each text is missing, blank or a word and each child may be missing.
TextKinds == {"none", "blank", "word"}

TextPiece(kind, word) ==
  CASE kind = "word" -> <<CharData(<<SP, word, SP>>)>>
    [] kind = "blank" -> <<CharData(<<SP>>)>>
    [] OTHER -> <<>>

IterTexts ==
  {El("a", NoAttrs,
      TextPiece(lead, "hello")
        \o (IF b THEN El("b", NoAttrs, TextPiece(inner, "world")) \o TextPiece(tail, "!")
            ELSE <<>>)
        \o (IF c THEN El("c", NoAttrs, Chars("...")) \o TextPiece(end, "bye") ELSE <<>>)) :
     lead \in TextKinds, inner \in TextKinds, tail \in TextKinds, end \in {"none", "word"},
     b \in BOOLEAN, c \in BOOLEAN}
  \cup {<<>>}

\* The element iterTextTrimSpace is called with: nil, the root of the text,
\* or the first child of the root.
Nodes == {"nil", "root", "child"}

NodeOf(tree, node) ==
  CASE node = "root" -> TreeRoot(tree)
    [] node = "child" ->
         (IF TreeRoot(tree) # <<>> /\ At(tree, <<1>>).kids # <<>> THEN << <<1, 1>> >> ELSE <<>>)
    [] OTHER -> <<>>

Affiliation(inst, dept, lab, other, addr) ==
  El("affiliation", NoAttrs,
     (IF inst THEN El("orgName", [type |-> <<"institution">>], Chars("MIT")) ELSE <<>>)
     \o (IF dept THEN El("orgName", [type |-> <<"department">>], Chars("Physics")) ELSE <<>>)
     \o (IF lab THEN El("orgName", [type |-> <<"laboratory">>], Chars("CSAIL")) ELSE <<>>)
     \o (IF other THEN El("orgName", [type |-> <<"consortium">>], Chars("W3C")) ELSE <<>>)
     \o (CASE addr = "full" ->
                El("address", NoAttrs,
                   El("settlement", NoAttrs, Chars("Boston"))
                     \o El("country", NoAttrs, Chars("USA")))
           [] addr = "empty" -> El("address", NoAttrs, <<>>)
           [] OTHER -> <<>>))

Affiliations ==
  {Affiliation(inst, dept, lab, other, addr) :
     inst \in BOOLEAN, dept \in BOOLEAN, lab \in BOOLEAN, other \in BOOLEAN,
     addr \in AddressKinds}

(* --------------------------- calls of the parser ----------------------- *)

\* The call returns the value v.
Value(v) == [val |-> v]

TeiInit ==
  /\ service = "processFulltextDocument"
  /\ fs = Tree({}, FALSE)
  /\ cin \in [fn : {"ParseDocument"}, arg : Documents]
            \cup [fn : {"ParseCitationList", "ParseCitation"}, arg : Fragments]
            \cup [fn : {"IsEmpty"}, arg : Biblios]
            \cup [fn : {"parseAffiliation"}, arg : Affiliations]
            \cup [fn : {"iterTextTrimSpace"}, arg : [text : IterTexts, node : Nodes]]
  /\ cout = NoCall
  /\ NoPDF
  /\ NoDirRun

CallParseDocument ==
  /\ cin.fn = "ParseDocument"
  /\ Returns(ParseDocument(cin.arg))

CallParseCitationList ==
  /\ cin.fn = "ParseCitationList"
  /\ Returns(Value(ParseCitationList(cin.arg)))

CallParseCitation ==
  /\ cin.fn = "ParseCitation"
  /\ Returns(Value(ParseCitation(cin.arg)))

CallIsEmpty ==
  /\ cin.fn = "IsEmpty"
  /\ Returns(Value(IsEmpty(cin.arg)))

\* parseAffiliation on the root element of the text.
CallParseAffiliation ==
  /\ cin.fn = "parseAffiliation"
  /\ Returns(Value(parseAffiliation(ReadFrom(cin.arg).tree, <<1>>)))

\* iterTextTrimSpace on an element of the text, or on nil.
CallIterTextTrimSpace ==
  /\ cin.fn = "iterTextTrimSpace"
  /\ Returns(Value(iterTextTrimSpace(ReadFrom(cin.arg.text).tree,
                                     NodeOf(ReadFrom(cin.arg.text).tree, cin.arg.node))))

TeiNext ==
  \/ CallParseDocument
  \/ CallParseCitationList
  \/ CallParseCitation
  \/ CallIsEmpty
  \/ CallParseAffiliation
  \/ CallIterTextTrimSpace

\* One call of a function of package tei.
TeiSpec == TeiInit /\ [][TeiNext]_vars

(* --------------------------- C17 --------------------------------------- *)

\* The descriptive and identifier fields of a record.
DescriptiveFields ==
  {"Title", "BookTitle", "SeriesTitle", "Journal", "JournalAbbrev", "Publisher",
   "Institution", "Date", "Volume", "Issue", "Pages", "FirstPage", "LastPage",
   "Note", "Unstructured", "DOI", "PMID", "PMCID", "ArxivID", "PII", "Ark",
   "IsTexID", "ISSN", "EISSN", "URL"}

\* The record has no authors, no editors and nothing in a descriptive or
\* identifier field.
HoldsNothing(g) ==
  /\ g.Authors = <<>>
  /\ g.Editors = <<>>
  /\ \A f \in DescriptiveFields : g[f] = <<>>

CalledIsEmpty == cin.fn = "IsEmpty" /\ cout # NoCall

\* C17: IsEmpty returns true if and only if the record has no authors, no
\* editors and every descriptive and identifier field is empty.
C17_EmptyIffNothingSet ==
  CalledIsEmpty => (cout.val <=> HoldsNothing(cin.arg))

\* IsEmpty answered for a record whose only content is an identifier.
C17_Witness ==
  /\ CalledIsEmpty
  /\ cin.arg.PII # <<>>
  /\ \A f \in DescriptiveFields \ {"PII"} : cin.arg[f] = <<>>

(* --------------------------- C15 --------------------------------------- *)

\* The tags of the text nest: every end tag closes the innermost open element
\* and no element stays open.
RECURSIVE Nests(_, _)
Nests(text, open) ==
  IF text = <<>> THEN open = <<>>
  ELSE CASE Head(text).t = "start" -> Nests(Tail(text), <<Head(text).tag>> \o open)
         [] Head(text).t = "end" ->
              open # <<>> /\ Head(open) = Head(text).tag /\ Nests(Tail(text), Tail(open))
         [] OTHER -> Nests(Tail(text), open)

\* The start tags of the text with the given tag, in the order of the text.
StartTags(text, tag) == SelectSeq(text, LAMBDA x : x.t = "start" /\ x.tag = tag)

NotWellFormed(text) == (\E i \in 1..Len(text) : text[i].t = "garbage") \/ ~Nests(text, <<>>)

RootAbsent(text) == \A i \in 1..Len(text) : text[i].t # "start"

HeaderAbsent(text) == StartTags(text, "teiHeader") = <<>>

ApplicationAbsent(text) == StartTags(text, "application") = <<>>

CalledParseDocument == cin.fn = "ParseDocument" /\ cout # NoCall

\* C15: ParseDocument fails with ErrInvalidDocument and returns no document
\* when the input is not well-formed XML, when the root element is absent,
\* when the teiHeader is absent, and when the header holds no application
\* annotation.
C15_InvalidDocument ==
  (/\ CalledParseDocument
   /\ \/ NotWellFormed(cin.arg)
      \/ RootAbsent(cin.arg)
      \/ HeaderAbsent(cin.arg)
      \/ ApplicationAbsent(cin.arg))
    => cout = Fails(ErrInvalidDocument)

\* The same for the inputs that are well-formed XML.
C15_InvalidDocumentWellFormed ==
  (CalledParseDocument /\ ~NotWellFormed(cin.arg)) => C15_InvalidDocument

\* ParseDocument returned for an input that is not well-formed XML.
C15_Witness == CalledParseDocument /\ NotWellFormed(cin.arg) /\ ~RootAbsent(cin.arg)

(* --------------------------- C16 --------------------------------------- *)

\* The application annotation of the text lacks the version or the when
\* attribute.
AttributeMissing(text) ==
  \E i \in 1..Len(text) :
    /\ text[i].t = "start" /\ text[i].tag = "application"
    /\ ("version" \notin DOMAIN text[i].attrs \/ "when" \notin DOMAIN text[i].attrs)

\* The version and the timestamp of the document are those of an application
\* annotation of the text.
VersionFound(text, doc) ==
  \E i \in 1..Len(text) :
    /\ text[i].t = "start" /\ text[i].tag = "application"
    /\ "version" \in DOMAIN text[i].attrs /\ "when" \in DOMAIN text[i].attrs
    /\ doc.GrobidVersion = TrimSpace(text[i].attrs["version"])
    /\ doc.GrobidTs = TrimSpace(text[i].attrs["when"])

\* C16: a document returned without error has a Header and the version and
\* timestamp found in the input; when the version or the when attribute is
\* missing ParseDocument returns an error and no document, and does not crash.
C16_WholeDocumentOrError ==
  CalledParseDocument =>
    /\ (cout.err = Nil /\ cout.doc # <<>>) =>
         (cout.doc[1].Header # <<>> /\ VersionFound(cin.arg, cout.doc[1]))
    /\ AttributeMissing(cin.arg) =>
         (cout.err # Nil /\ cout.doc = <<>> /\ ~cout.panic)

\* The part of C16 about the documents that are returned.
C16_ReturnedDocuments ==
  (CalledParseDocument /\ cout.err = Nil /\ cout.doc # <<>>) =>
    (cout.doc[1].Header # <<>> /\ VersionFound(cin.arg, cout.doc[1]))

\* ParseDocument was given a well-formed document with a header in the TEI
\* namespace whose application annotation lacks an attribute.
C16_Witness ==
  /\ CalledParseDocument
  /\ AttributeMissing(cin.arg)
  /\ ~NotWellFormed(cin.arg)
  /\ cout # Fails(ErrInvalidDocument)

(* --------------------------- C18 --------------------------------------- *)

\* The xml:id of a start tag.
IdOf(x) == IF "id" \in DOMAIN x.attrs THEN x.attrs["id"] ELSE <<>>

\* The nesting depths of the start tags with the given tag, in the order of
\* the text; the root has depth 0.
RECURSIVE Depths(_, _, _)
Depths(text, tag, depth) ==
  IF text = <<>> THEN <<>>
  ELSE CASE Head(text).t = "start" ->
              (IF Head(text).tag = tag THEN <<depth>> ELSE <<>>)
                \o Depths(Tail(text), tag, depth + 1)
         [] Head(text).t = "end" -> Depths(Tail(text), tag, depth - 1)
         [] OTHER -> Depths(Tail(text), tag, depth)

\* The text cannot be parsed: it is not well-formed or has no element.
Unparseable(text) == NotWellFormed(text) \/ RootAbsent(text)

\* The root of the text is a biblStruct.
RootIsBibl(text) == Depths(text, "biblStruct", 0) # <<>> /\ Depths(text, "biblStruct", 0)[1] = 0

\* The records are those of the biblStruct nodes of the text in document
\* order, each with its position as Index.
InDocumentOrder(text, recs) ==
  LET nodes == StartTags(text, "biblStruct")
  IN /\ Len(recs) = Len(nodes)
     /\ \A k \in 1..Len(recs) : recs[k].Index = k - 1 /\ recs[k].ID = IdOf(nodes[k])

CalledParseCitationList == cin.fn = "ParseCitationList" /\ cout # NoCall

\* C18, the part about the order: one record per biblStruct node of a
\* fragment, in document order, indexed 0,1,2,..., whatever the depth of the
\* nodes, and a single record with Index 0 for a root that is a biblStruct.
C18_Order ==
  (CalledParseCitationList /\ ~Unparseable(cin.arg)) =>
     IF RootIsBibl(cin.arg)
     THEN Len(cout.val) = 1 /\ cout.val[1].Index = 0
     ELSE InDocumentOrder(cin.arg, cout.val)

\* C18, the part about text that cannot be parsed: the result is empty.
C18_Unparseable ==
  (CalledParseCitationList /\ Unparseable(cin.arg)) => cout.val = <<>>

\* C18: ParseCitationList returns one record per biblStruct node in document
\* order with Index 0,1,2,... regardless of nesting depth, a single record with
\* Index 0 for a root biblStruct, and an empty sequence for a fragment without
\* such nodes and for unparseable text, with and without the TEI namespace
\* declaration.
C18_CitationList == C18_Order /\ C18_Unparseable

\* C18_Order for the fragments whose biblStruct nodes are all at one depth.
C18_OrderAtOneDepth ==
  (cin.fn = "ParseCitationList" /\ \A i, j \in DOMAIN Depths(cin.arg, "biblStruct", 0) :
       Depths(cin.arg, "biblStruct", 0)[i] = Depths(cin.arg, "biblStruct", 0)[j])
    => C18_Order

\* ParseCitationList returned for a well-formed fragment with biblStruct nodes
\* at different depths.
C18_Witness ==
  /\ CalledParseCitationList
  /\ ~Unparseable(cin.arg)
  /\ \E i, j \in DOMAIN Depths(cin.arg, "biblStruct", 0) :
       Depths(cin.arg, "biblStruct", 0)[i] # Depths(cin.arg, "biblStruct", 0)[j]

(* --------------------------- C19 --------------------------------------- *)

\* The biblStruct start tags of the text whose parent is a listBibl, in the
\* order of the text.
RECURSIVE ListedBibls(_, _)
ListedBibls(text, open) ==
  IF text = <<>> THEN <<>>
  ELSE CASE Head(text).t = "start" ->
              (IF Head(text).tag = "biblStruct" /\ open # <<>> /\ Head(open) = "listBibl"
               THEN <<Head(text)>> ELSE <<>>)
                \o ListedBibls(Tail(text), <<Head(text).tag>> \o open)
         [] Head(text).t = "end" -> ListedBibls(Tail(text), Tail(open))
         [] OTHER -> ListedBibls(Tail(text), open)

\* A well-formed document with a teiHeader in the TEI namespace and an
\* application annotation with both attributes.
ValidHeader(text) ==
  /\ ~Unparseable(text)
  /\ "xmlns" \in DOMAIN Head(text).attrs
  /\ ~HeaderAbsent(text)
  /\ ~ApplicationAbsent(text)
  /\ ~AttributeMissing(text)

ReturnedDocument == CalledParseDocument /\ cout.err = Nil /\ cout.doc # <<>>

\* C19, the part about the order: the k-th citation of a returned document is
\* the k-th biblStruct node in document order and has Index k.
C19_Order ==
  ReturnedDocument =>
    LET nodes == ListedBibls(cin.arg, <<>>)
        refs  == cout.doc[1].Citations
    IN /\ Len(refs) = Len(nodes)
       /\ \A k \in 1..Len(refs) : refs[k].Index = k - 1 /\ refs[k].ID = IdOf(nodes[k])

\* C19, the part about no citations: a document with a valid header and no
\* citation is returned without error, with an empty citation sequence.
C19_ZeroCitations ==
  (CalledParseDocument /\ ValidHeader(cin.arg) /\ StartTags(cin.arg, "biblStruct") = <<>>)
    => (ReturnedDocument /\ cout.doc[1].Citations = <<>>)

\* C19: the citations of a returned document are the biblStruct nodes in
\* document order, the k-th with Index k, and a document with a valid header
\* and zero citations yields an empty citation sequence and no error.
C19_Citations == C19_Order /\ C19_ZeroCitations

\* A document with two citations was returned.
C19_Witness == ReturnedDocument /\ Len(cout.doc[1].Citations) = 2

\* C19_Order for the documents whose listBibl elements are all at one depth.
C19_OrderAtOneDepth ==
  (cin.fn = "ParseDocument" /\ \A i, j \in DOMAIN Depths(cin.arg, "listBibl", 0) :
       Depths(cin.arg, "listBibl", 0)[i] = Depths(cin.arg, "listBibl", 0)[j])
    => C19_Order

(* --------------------------- C20 --------------------------------------- *)

CalledParseCitation == cin.fn = "ParseCitation" /\ cout # NoCall

\* C20: ParseCitation returns the first record of ParseCitationList with its
\* Index set to -1, and nil when the list is empty or that record IsEmpty, as
\* for a fragment that is an empty biblStruct.
C20_FirstCitation ==
  CalledParseCitation =>
    LET cl == ParseCitationList(cin.arg)
    IN /\ IF Len(cl) = 0 \/ IsEmpty(cl[1])
          THEN cout.val = <<>>
          ELSE cout.val = <<[cl[1] EXCEPT !.Index = -1]>>
       /\ cin.arg = El("biblStruct", NoAttrs, <<>>) => cout.val = <<>>

\* ParseCitation returned a record.
C20_Witness == CalledParseCitation /\ cout.val # <<>> /\ cout.val[1].Title # <<>>

(* --------------------------- C21 --------------------------------------- *)

\* The text has an orgName of the given type.
HasOrgName(text, type) ==
  \E i \in 1..Len(text) :
    /\ text[i].t = "start" /\ text[i].tag = "orgName"
    /\ "type" \in DOMAIN text[i].attrs /\ text[i].attrs["type"] = <<type>>

HasAddress(text) == StartTags(text, "address") # <<>>

\* The text has none of the three organisation names of an affiliation.
NoOrganisation(text) ==
  /\ ~HasOrgName(text, "institution")
  /\ ~HasOrgName(text, "department")
  /\ ~HasOrgName(text, "laboratory")

CalledParseAffiliation == cin.fn = "parseAffiliation" /\ cout # NoCall

\* C21: parseAffiliation returns nil exactly when the affiliation has no
\* institution, no department, no laboratory and no address; an affiliation
\* with an address and none of the three names is kept, with its address.
C21_AbsentIffNothing ==
  CalledParseAffiliation =>
    /\ cout.val = <<>> <=> (NoOrganisation(cin.arg) /\ ~HasAddress(cin.arg))
    /\ (NoOrganisation(cin.arg) /\ HasAddress(cin.arg)) =>
         (cout.val # <<>> /\ cout.val[1].Address # <<>>)

\* The affiliations with one of the three names are kept, and with their
\* address when they have one.
C21_NamedKept ==
  (CalledParseAffiliation /\ ~NoOrganisation(cin.arg)) =>
    /\ cout.val # <<>>
    /\ cout.val[1].Address # <<>> <=> HasAddress(cin.arg)

\* parseAffiliation returned for an affiliation with an address and none of
\* the three names.
C21_Witness ==
  CalledParseAffiliation /\ NoOrganisation(cin.arg) /\ HasAddress(cin.arg)

(* --------------------------- C22 --------------------------------------- *)

\* The position in the text of the start tag of the page element, 0 without
\* one.
PagePosition(text) ==
  LET at == {i \in 1..Len(text) :
               /\ text[i].t = "start" /\ text[i].tag = "biblScope"
               /\ "unit" \in DOMAIN text[i].attrs /\ text[i].attrs["unit"] = <<"page">>}
  IN IF at = {} THEN 0 ELSE CHOOSE i \in at : \A j \in at : i <= j

\* The value of an attribute of a start tag, empty without the attribute.
AttrValue(x, key) == IF key \in DOMAIN x.attrs THEN x.attrs[key] ELSE <<>>

\* The character data that follows position i of the text at once.
RawText(text, i) ==
  IF i < Len(text) /\ text[i + 1].t = "chars" THEN text[i + 1].data ELSE <<>>

ParsedPages ==
  /\ cin.fn = "ParseCitationList" /\ cout # NoCall
  /\ ~Unparseable(cin.arg) /\ RootIsBibl(cin.arg)
  /\ PagePosition(cin.arg) # 0

RECURSIVE ClosingTag(_, _, _)
ClosingTag(text, i, depth) ==
  IF i > Len(text) THEN i
  ELSE CASE text[i].t = "start" -> ClosingTag(text, i + 1, depth + 1)
         [] text[i].t = "end" -> IF depth = 0 THEN i ELSE ClosingTag(text, i + 1, depth - 1)
         [] OTHER -> ClosingTag(text, i + 1, depth)

\* The position of the start tag of the node of a call: 0 for nil.
NodePosition(text, node) ==
  CASE node = "root" -> IF text = <<>> THEN 0 ELSE 1
    [] node = "child" -> IF Len(text) > 2 /\ \E i \in 2..Len(text) : text[i].t = "start"
                         THEN CHOOSE i \in 2..Len(text) :
                                text[i].t = "start" /\ \A j \in 2..(i - 1) : text[j].t # "start"
                         ELSE 0
    [] OTHER -> 0

\* The trimmed character data of the pieces of a text that is not blank, in
\* the order of the text.
RECURSIVE Readable(_)
Readable(text) ==
  IF text = <<>> THEN <<>>
  ELSE (IF Head(text).t = "chars" /\ TrimSpace(Head(text).data) # <<>>
        THEN <<TrimSpace(Head(text).data)>> ELSE <<>>) \o Readable(Tail(text))

\* What can be read between the start tag at position i and its end tag.
ReadableInside(text, i) ==
  IF i = 0 THEN <<>> ELSE Readable(SubSeq(text, i + 1, ClosingTag(text, i + 1, 0) - 1))

\* What can be read in the character data right after the end tag of the
\* element that starts at position i.
ReadableAfter(text, i) ==
  IF i = 0 THEN <<>>
  ELSE Readable(SubSeq(text, ClosingTag(text, i + 1, 0) + 1,
                       IF ClosingTag(text, i + 1, 0) < Len(text)
                          /\ text[ClosingTag(text, i + 1, 0) + 1].t = "chars"
                       THEN ClosingTag(text, i + 1, 0) + 1
                       ELSE ClosingTag(text, i + 1, 0)))

CalledIterTextTrimSpace == cin.fn = "iterTextTrimSpace" /\ cout # NoCall

\* C23: iterTextTrimSpace returns the trimmed texts of a node that are not
\* blank, in reading order: the text of the node, then each child with the
\* text after its end tag; blank texts are dropped; nil gives nothing.
C23_ReadingOrder ==
  CalledIterTextTrimSpace =>
    cout.val = ReadableInside(cin.arg.text, NodePosition(cin.arg.text, cin.arg.node))

\* C23 for the nodes that no text follows.
C23_ReadingOrderNoTail ==
  (cin.fn = "iterTextTrimSpace"
     /\ ReadableAfter(cin.arg.text, NodePosition(cin.arg.text, cin.arg.node)) = <<>>)
    => C23_ReadingOrder

\* iterTextTrimSpace returned the texts of a node with a blank text, a child
\* and a text after the child.
C23_Witness ==
  /\ CalledIterTextTrimSpace
  /\ cin.arg.node = "root"
  /\ Len(cout.val) >= 3
  /\ \E i \in 1..Len(cin.arg.text) :
       cin.arg.text[i].t = "chars" /\ TrimSpace(cin.arg.text[i].data) = <<>>

(* --------------------------- C30 --------------------------------------- *)

\* C30: the result of iterTextTrimSpace holds only text from inside the node:
\* the text after the end tag of the node is not part of it.
C30_OnlyOwnSubtree ==
  CalledIterTextTrimSpace =>
    LET inside == ReadableInside(cin.arg.text, NodePosition(cin.arg.text, cin.arg.node))
    IN /\ Len(cout.val) <= Len(inside)
       /\ \A k \in 1..Len(cout.val) : \E j \in 1..Len(inside) : cout.val[k] = inside[j]

\* iterTextTrimSpace returned for a node that is followed by text.
C30_Witness ==
  /\ CalledIterTextTrimSpace
  /\ ReadableAfter(cin.arg.text, NodePosition(cin.arg.text, cin.arg.node)) # <<>>

(* ======================= the result writers, called directly =========== *)

\* The file names of the results: none, a.pdf, a.pdf in a directory that may
\* be missing, and a PDF whose name holds the extension of the TEI files.
WriterNames ==
  {<<>>, InDir(Root, "a", <<"pdf">>), InDir(SubDir, "a", <<"pdf">>),
   InDir(Root, "a", DefaultExt \o <<DOT, "pdf">>)}

\* The results handed to a result function: nil, the zero value, the results
\* of a response, and the pseudo-result of a worker.
WriterResults ==
  {NilResult}
    \cup {MkResult(n, s, b, Nil) : n \in WriterNames, s \in {0, 200, 500}, b \in {0, 1}}
    \cup {SyntheticResult(InDir(Root, "a", <<"pdf">>), <<"http">>)}

WriterInit ==
  /\ service \in Services
  /\ \E files \in SUBSET CandidateFiles :
       /\ Cardinality(files) <= MaxFiles
       /\ fs = Tree(files, FALSE)
  /\ cin \in [fn : ResultFuncs, result : WriterResults,
              opts : [Force : {FALSE}, OutputDir : OutputDirs], io : IoOutcomes]
  /\ cout = NoCall
  /\ NoPDF
  /\ NoDirRun

\* The result function returns out, having changed the file system.
Wrote(out) ==
  /\ cout = NoCall
  /\ cout' = [err |-> out.err, wrote |-> out.wrote]
  /\ fs' = out.fs
  /\ UNCHANGED <<cin, pdfVars, args, mainVars, workerVars, aggVars, histVars>>

CallDefaultResultWriter ==
  /\ cin.fn = "DefaultResultWriter"
  /\ Wrote(DefaultResultWriter(cin.result, cin.opts, fs, cin.io))

CallDebugResultWriter ==
  /\ cin.fn = "DebugResultWriter"
  /\ Wrote(DebugResultWriter(cin.result, cin.opts, fs, cin.io))

WriterNext == CallDefaultResultWriter \/ CallDebugResultWriter

\* One call of a result function.
WriterSpec == WriterInit /\ [][WriterNext]_vars

(* --------------------------- C24 --------------------------------------- *)

CalledDefaultResultWriter == cin.fn = "DefaultResultWriter" /\ cout # NoCall

\* A nil or zero-valued result.
Blank(r) == r.isNil \/ r = MkResult(<<>>, 0, 0, Nil)

\* A result with status 200 and a body.
Good(r) == ~Blank(r) /\ r.StatusCode = 200 /\ r.BodyLen > 0

\* <input without extension>.grobid.tei.xml, under OutputDir when set.
TeiName == outputFilename(cin.result.Filename, cin.opts)

\* The paths the call created.
NewPaths == {e.p : e \in fs} \ {e.p : e \in fs0}

IsTeiName(p) == HasSuffix(p, <<DOT>> \o DefaultExt)

\* What the claim says of a call for result r.
WriterContract(r) ==
  /\ Blank(r) => cout.err = Nil /\ cout.wrote = <<>> /\ fs = fs0
  /\ (Good(r) /\ cin.io = "ok") => cout.err = Nil /\ cout.wrote = <<TeiName>>
  /\ (~Blank(r) /\ ~Good(r)) =>
       /\ cin.io = "ok" =>
            /\ cout.wrote # <<>>
            /\ HasSuffix(cout.wrote[1], ErrSuffix(r.StatusCode))
       /\ \A p \in NewPaths : ~IsTeiName(p)

\* C24: DefaultResultWriter writes nothing and returns nil for a nil or
\* zero-valued result; for status 200 with a body it writes the TEI file named
\* after the input (under OutputDir when set); for any other result it writes
\* a file whose name ends in _<status>.txt and creates no .grobid.tei.xml file.
C24_Writer == CalledDefaultResultWriter => WriterContract(cin.result)

\* The file name of the result holds the extension of the TEI files.
NameHoldsExt(name) ==
  \E i \in 1..Len(name) : \E j \in i..Len(name) : SubSeq(name, i, j) = <<DOT>> \o DefaultExt

\* The same for results whose file name does not hold ".grobid.tei.xml".
C24_WriterPlainNames ==
  (CalledDefaultResultWriter /\ ~NameHoldsExt(cin.result.Filename))
    => WriterContract(cin.result)

\* An error file was written for a response with status 500.
C24_Witness ==
  /\ CalledDefaultResultWriter
  /\ cin.result.StatusCode = 500
  /\ cout.wrote # <<>>

(* ======================= ProcessPDFContext, step by step =============== *)

\* How os.Open answers in the copy goroutine; the file can have gone, or be
\* unreadable, although os.Stat found it.
OpenOutcomes == {"ok", "fail"}

PdfInit ==
  /\ service \in Services
  /\ \E files \in SUBSET CandidateFiles :
       /\ Cardinality(files) <= MaxFiles
       /\ fs = Tree(files, FALSE)
  /\ cin \in [fn : {"ProcessPDFContext"}, filename : SubmitNames, open : OpenOutcomes]
  /\ cout = NoCall
  /\ NoPDF
  /\ NoDirRun

\* ProcessPDFContext returns to its caller.
PdfReturn(result, e) ==
  /\ ppc' = "returned"
  /\ cout' = [result |-> result, err |-> e]

DirIdle == UNCHANGED <<cin, args, fs, mainVars, workerVars, aggVars, histVars>>

\* os.Stat, IsValidService, then the pipe, errC = make(chan error) and the go
\* statement; the caller goes on to g.Client.Do.
PdfEnter ==
  /\ cin.fn = "ProcessPDFContext"
  /\ ppc = "idle"
  /\ IF ~Exists(fs, cin.filename)
     THEN PdfReturn(NilResult, <<"stat", cin.filename>>) /\ UNCHANGED gpc
     ELSE IF ~IsValidService(service)
     THEN PdfReturn(NilResult, ErrInvalidService) /\ UNCHANGED gpc
     ELSE ppc' = "do" /\ gpc' = "open" /\ UNCHANGED cout
  /\ UNCHANGED <<gerr, sent, prClosed, resp>>
  /\ DirIdle

\* The copy goroutine: os.Open.
CopyOpen ==
  /\ gpc = "open"
  /\ IF cin.open = "ok"
     THEN gpc' = "copy" /\ UNCHANGED gerr
     ELSE gpc' = "send" /\ gerr' = <<"open", cin.filename>>
  /\ UNCHANGED <<cout, ppc, sent, prClosed, resp>>
  /\ DirIdle

\* The copy goroutine: writeFields, CreateFormFile, io.Copy, mw.Close and
\* pw.Close.  A write fails once the read end of the pipe is closed, and the
\* read of the file can fail at any time.
CopyBody ==
  /\ gpc = "copy"
  /\ \E ok \in BOOLEAN :
       /\ ok => ~prClosed
       /\ gerr' = IF ok THEN Nil ELSE <<"copy", cin.filename>>
  /\ gpc' = "send"
  /\ UNCHANGED <<cout, ppc, sent, prClosed, resp>>
  /\ DirIdle

\* g.Client.Do fails; the transport closes the body of the request, the read
\* end of the pipe, and ProcessPDFContext returns the error.
DoFails ==
  /\ ppc = "do"
  /\ prClosed' = TRUE
  /\ PdfReturn(NilResult, <<"http", cin.filename>>)
  /\ UNCHANGED <<gpc, gerr, sent, resp>>
  /\ DirIdle

\* g.Client.Do returns a response.
DoResponds ==
  /\ ppc = "do"
  /\ \E h \in {x \in HttpOutcomes : x.ok} : resp' = h
  /\ ppc' = "recv"
  /\ UNCHANGED <<cout, gpc, gerr, sent, prClosed>>
  /\ DirIdle

\* errC is not buffered: errC <- err in the copy goroutine and <-errC in the
\* caller happen together.
SendRecv ==
  /\ gpc = "send"
  /\ ppc = "recv"
  /\ sent' = sent + 1
  /\ gpc' = "close"
  /\ IF gerr # Nil
     THEN PdfReturn(NilResult, gerr)
     ELSE ppc' = "read" /\ UNCHANGED cout
  /\ UNCHANGED <<gerr, prClosed, resp>>
  /\ DirIdle

\* The copy goroutine: the deferred close(errC); the goroutine ends.
CopyExit ==
  /\ gpc = "close"
  /\ gpc' = "done"
  /\ UNCHANGED <<cout, ppc, gerr, sent, prClosed, resp>>
  /\ DirIdle

\* io.ReadAll(resp.Body) and the result.
ReadBody ==
  /\ ppc = "read"
  /\ \E ok \in BOOLEAN :
       IF ok THEN PdfReturn(MkResult(cin.filename, resp.status, resp.bodyLen, Nil), Nil)
       ELSE PdfReturn(NilResult, <<"read", cin.filename>>)
  /\ UNCHANGED <<gpc, gerr, sent, prClosed, resp>>
  /\ DirIdle

PdfNext ==
  \/ PdfEnter
  \/ CopyOpen
  \/ CopyBody
  \/ DoFails
  \/ DoResponds
  \/ SendRecv
  \/ CopyExit
  \/ ReadBody

\* One call of ProcessPDFContext, its copy goroutine included.
PdfSpec == PdfInit /\ [][PdfNext]_vars

(* --------------------------- C25 --------------------------------------- *)

\* The go statement was reached.
CopyStarted == gpc # "none"

\* The copy goroutine is at errC <- err and nobody will receive: the only
\* receive is in ProcessPDFContext, which has returned.
LeftBlocked == ppc = "returned" /\ gpc = "send"

\* C25: in every execution of ProcessPDFContext the copy goroutine sends
\* exactly one value on errC and then terminates, and it is never left blocked
\* after ProcessPDFContext has returned.
C25_CopyGoroutine ==
  /\ sent <= 1
  /\ gpc = "done" => sent = 1
  /\ ~LeftBlocked

\* The same for the calls in which g.Client.Do returned a response.
C25_CopyGoroutineAfterResponse == resp # NoResp => C25_CopyGoroutine

\* Once ProcessPDFContext has returned after a response, the value was sent.
C25_SentBeforeReturn ==
  (ppc = "returned" /\ resp # NoResp) => (sent = 1 /\ gpc \in {"close", "done"})

\* The call returned a result and the copy goroutine has ended, one value sent.
C25_Witness ==
  /\ ppc = "returned"
  /\ ~cout.result.isNil
  /\ gpc = "done"
  /\ sent = 1

(* ======================= parseLines ==================================== *)

\* The longest input, in tokens.
MaxLen == 4

\* The inputs: the texts of up to MaxLen tokens, each a character, white space
\* or the end of a line.
RECURSIVE Texts(_)
Texts(n) ==
  IF n = 0 THEN {<<>>}
  ELSE Texts(n - 1) \cup {Append(t, c) : t \in {x \in Texts(n - 1) : Len(x) = n - 1},
                                         c \in {"1", SP, NL}}

\* The place of the first end of line in s, 0 if there is none.
FirstNL(s) ==
  LET hits == {i \in 1..Len(s) : s[i] = NL}
  IN IF hits = {} THEN 0 ELSE CHOOSE i \in hits : \A j \in hits : i <= j

\* The loop of parseLines on the rest s of the input; readErr: the reader
\* fails, instead of reporting io.EOF, when it has nothing more to give.
\* br.ReadString gives a line with its "\n", or what is left and the error.
RECURSIVE parseLinesLoop(_, _, _)
parseLinesLoop(s, readErr, lines) ==
  IF FirstNL(s) = 0
  THEN [val |-> lines, err |-> IF readErr THEN <<"read">> ELSE Nil]
  ELSE LET Keep(v) == IF Len(v) = 0 THEN lines ELSE Append(lines, v)
       IN parseLinesLoop(SubSeq(s, FirstNL(s) + 1, Len(s)), readErr,
                         Keep(TrimSpace(SubSeq(s, 1, FirstNL(s)))))

parseLines(s, readErr) == parseLinesLoop(s, readErr, <<>>)

LinesInit ==
  /\ service \in {"processCitationList"}
  /\ fs = Tree({}, FALSE)
  /\ cin \in [fn : {"parseLines"}, arg : Texts(MaxLen), readErr : BOOLEAN]
  /\ cout = NoCall
  /\ NoPDF
  /\ NoDirRun

CallParseLines ==
  /\ cin.fn = "parseLines"
  /\ Returns(parseLines(cin.arg, cin.readErr))

LinesNext == CallParseLines

\* One call of parseLines.
LinesSpec == LinesInit /\ [][LinesNext]_vars

(* --------------------------- C27 --------------------------------------- *)

CalledParseLines == cin.fn = "parseLines" /\ cout # NoCall

\* The lines of a text: the pieces between the ends of lines; the last piece
\* is a line whether an end of line follows it or not, unless it is empty.
RECURSIVE LinesOf(_)
LinesOf(s) ==
  IF s = <<>> THEN <<>>
  ELSE IF FirstNL(s) = 0 THEN <<s>>
  ELSE <<SubSeq(s, 1, FirstNL(s) - 1)>> \o LinesOf(SubSeq(s, FirstNL(s) + 1, Len(s)))

IsBlankLine(l) == \A i \in 1..Len(l) : l[i] \in White

\* The non-blank lines of a text, trimmed, in order.
RECURSIVE TrimmedNonBlank(_)
TrimmedNonBlank(ls) ==
  IF ls = <<>> THEN <<>>
  ELSE (IF IsBlankLine(Head(ls)) THEN <<>> ELSE <<TrimSpace(Head(ls))>>)
         \o TrimmedNonBlank(Tail(ls))

\* The text up to its last end of line.
TerminatedPart(s) ==
  LET hits == {i \in 1..Len(s) : s[i] = NL}
  IN IF hits = {} THEN <<>>
     ELSE SubSeq(s, 1, CHOOSE i \in hits : \A j \in hits : j <= i)

\* C27: parseLines returns every non-blank line of its input, trimmed and in
\* input order, without error, also when the last line is not terminated; an
\* input with no non-blank line yields nil and no error.
C27_NonBlankLines ==
  (CalledParseLines /\ ~cin.readErr) =>
    /\ cout.err = Nil
    /\ cout.val = TrimmedNonBlank(LinesOf(cin.arg))

\* The same for inputs that are empty or end with an end of line.
C27_NonBlankLinesTerminated ==
  (CalledParseLines /\ TerminatedPart(cin.arg) = cin.arg) => C27_NonBlankLines

\* What is returned: the non-blank lines of the text up to its last end of line.
C27_TerminatedLinesOnly ==
  CalledParseLines => cout.val = TrimmedNonBlank(LinesOf(TerminatedPart(cin.arg)))

\* A line was returned trimmed, and the blank line after it dropped.
C27_Witness ==
  /\ CalledParseLines
  /\ cin.arg = <<SP, "1", NL, NL>>
  /\ cout = [val |-> << <<"1">> >>, err |-> Nil]

====
